---- MODULE Spec2Model ----
(***************************************************************************)
(* A model of Deity-js: the Ledger (decaying event log), the Mood engine   *)
(* (6-dimensional vector resolved once per tick), the Supplicant           *)
(* (frequency predictor) and the Deity orchestrator (offer / pray /        *)
(* desecrate / action / tick / query / on / serialize).                    *)
(*                                                                         *)
(* Numbers.  JavaScript doubles are modelled as fixed-point integers with  *)
(* SCALE units per 1.0; every product and quotient is rounded to the       *)
(* nearest unit (RDiv), as IEEE arithmetic rounds to the nearest double.   *)
(* Infinity is the sentinel INF.  Math.sin is computed by range reduction  *)
(* and Bhaskara's rational approximation, Math.pow(0.5, x) by repeated     *)
(* multiplication with the h-th root of one half.                          *)
(***************************************************************************)
EXTENDS Integers, Sequences, FiniteSets, TLC

\* ------------------------------------------------------------------------
\* Fixed-point arithmetic
\* ------------------------------------------------------------------------

SCALE == 10000

INF == 100000

Max(a, b) == IF a >= b THEN a ELSE b

Min(a, b) == IF a <= b THEN a ELSE b

Abs(a) == IF a >= 0 THEN a ELSE 0 - a

\* a / b rounded to the nearest integer (b > 0)
RDiv(a, b) == (2 * a + b) \div (2 * b)

\* product of two fixed-point numbers
Mul(a, b) == RDiv(a * b, SCALE)

\* x * (num / den) for a decimal literal num/den such as 0.04 = 4/100
Coef(x, num, den) == RDiv(x * num, den)

TWO_PI_URAD == 6283185

PI_MRAD == 3142

\* sin of an angle given in micro-radians (>= 0), result scaled by `amp`:
\* range reduction modulo 2*pi, then Bhaskara I's approximation
\* sin x ~ 16 x (pi - x) / (5 pi^2 - 4 x (pi - x)) on [0, pi].
SinAmp(urad, amp) ==
  LET r   == (urad % TWO_PI_URAD) \div 1000
      neg == r > PI_MRAD
      x   == IF neg THEN r - PI_MRAD ELSE r
      p   == (x * (PI_MRAD - x)) \div 100
      v   == RDiv(16 * p * amp, 493481 - 4 * p)
  IN  IF neg THEN 0 - v ELSE v

\* ------------------------------------------------------------------------
\* Mood (src/mood.js)
\* ------------------------------------------------------------------------

DIMENSIONS == <<"wrath", "serenity", "hunger", "amusement", "sorrow", "chaos">>

Dims == {DIMENSIONS[i] : i \in 1..Len(DIMENSIONS)}

\* DIMENSIONS.indexOf(d), zero based
IndexOf(d) == (CHOOSE i \in 1..Len(DIMENSIONS) : DIMENSIONS[i] = d) - 1

RECURSIVE SumOver(_, _)
SumOver(f, S) ==
  IF S = {} THEN 0
  ELSE LET x == CHOOSE y \in S : TRUE IN f[x] + SumOver(f, S \ {x})

VecSum(vec) == SumOver(vec, Dims)

\* Mood.fromPartial: a partial vector is a function on a subset of Dims
FromPartial(partial) ==
  LET given      == DOMAIN partial \cap Dims
      assigned   == SumOver(partial, given)
      remaining  == Max(0, SCALE - assigned)
      unassigned == Dims \ given
      share      == IF Cardinality(unassigned) > 0
                    THEN RDiv(remaining, Cardinality(unassigned)) ELSE 0
  IN  [d \in Dims |-> IF d \in given THEN partial[d] ELSE share]

\* a faulty normalize that divides by the sum without clamping negative
\* components to 0
NormalizeNoClamp(vec) ==
  LET sum == VecSum(vec)
  IN  IF sum = 0
      THEN [d \in Dims |-> RDiv(SCALE, Len(DIMENSIONS))]
      ELSE [d \in Dims |-> RDiv(vec[d] * SCALE, sum)]

\* Mood.normalize
Normalize(vec) ==
  LET clamped == [d \in Dims |-> Max(0, vec[d])]
      sum     == VecSum(clamped)
  IN  IF sum = 0
      THEN [d \in Dims |-> RDiv(SCALE, Len(DIMENSIONS))]
      ELSE [d \in Dims |-> RDiv(clamped[d] * SCALE, sum)]

\* ------------------------------------------------------------------------
\* Ledger (src/unnamed/part_001, imported as ./ledger.js)
\* ------------------------------------------------------------------------

DEFAULT_HALF_LIFE == 100

\* SCALE * 0.5^(1/h): the factor by which one tick of age scales a weight
RootHalf(h) ==
  CASE h = 1   -> 5000
    [] h = 2   -> 7071
    [] h = 3   -> 7937
    [] h = 50  -> 9862
    [] h = 100 -> 9931

RECURSIVE PowHalf(_, _)
\* Math.pow(0.5, age / h)
PowHalf(age, h) ==
  IF age = 0 THEN SCALE ELSE Mul(PowHalf(age - 1, h), RootHalf(h))

\* meta[key] ?? dflt
Get(meta, key, dflt) == IF key \in DOMAIN meta THEN meta[key] ELSE dflt

Has(meta, key) == key \in DOMAIN meta

\* new Ledger({decayHalfLife})
NewLedger(halfLife) == [halfLife |-> halfLife, entries |-> <<>>, tick |-> 0]

\* a faulty record that puts the new entry in front of the older ones
LedgerRecordFirst(l, type, meta) ==
  [l EXCEPT !.entries = <<[type |-> type, tick |-> l.tick, meta |-> meta]>> \o @]

\* a faulty record that stamps the entry with the tick to come
LedgerRecordAhead(l, type, meta) ==
  [l EXCEPT !.entries = Append(@, [type |-> type, tick |-> l.tick + 1, meta |-> meta])]

\* Ledger.record
LedgerRecord(l, type, meta) ==
  [l EXCEPT !.entries = Append(@, [type |-> type, tick |-> l.tick, meta |-> meta])]

\* Ledger.advanceTick
AdvanceTick(l, n) == [l EXCEPT !.tick = @ + n]

\* Ledger._weight
Weight(l, e) == PowHalf(Max(0, l.tick - e.tick), l.halfLife)

\* Ledger.ofType: the entries of a type, in order, each with its weight
OfType(l, type) ==
  LET sel == SelectSeq(l.entries, LAMBDA e : e.type = type)
  IN  [i \in 1..Len(sel) |-> [type |-> sel[i].type, tick |-> sel[i].tick,
                              meta |-> sel[i].meta, weight |-> Weight(l, sel[i])]]

RECURSIVE WeightedFrom(_, _, _)
WeightedFrom(l, type, i) ==
  IF i > Len(l.entries) THEN 0
  ELSE (IF l.entries[i].type = type THEN Weight(l, l.entries[i]) ELSE 0)
       + WeightedFrom(l, type, i + 1)

\* Ledger.weightedCount
WeightedCount(l, type) == WeightedFrom(l, type, 1)

\* Ledger._weight as an IEEE double, kept in the log domain so that no rounding
\* of the model hides the rounding of the code: the value is 2^-(age/halfLife)
\* unless zero is set.  Math.pow(0.5, x) rounds to 0 once 2^-x is no more than
\* half the least positive double 2^-1074, that is from x = 1075 on
WeightAsDouble(l, e) ==
  LET age == Max(0, l.tick - e.tick)
  IN  [zero |-> age >= 1075 * l.halfLife, age |-> age, halfLife |-> l.halfLife]

\* Ledger.ofType, the weights as doubles
OfTypeAsDouble(l, type) ==
  LET sel == SelectSeq(l.entries, LAMBDA e : e.type = type)
  IN  [i \in 1..Len(sel) |-> [type |-> sel[i].type, tick |-> sel[i].tick,
                              meta |-> sel[i].meta, weight |-> WeightAsDouble(l, sel[i])]]

\* Ledger.ticksSinceLast: the newest entry of the type, Infinity if none
TicksSinceLast(l, type) ==
  LET idx == {i \in 1..Len(l.entries) : l.entries[i].type = type}
  IN  IF idx = {} THEN INF
      ELSE l.tick - l.entries[CHOOSE i \in idx : \A j \in idx : j <= i].tick

\* e.meta.offeringType || e.meta.actionType || ''
SubKind(e) ==
  IF Has(e.meta, "offeringType") /\ e.meta.offeringType # ""
  THEN e.meta.offeringType
  ELSE IF Has(e.meta, "actionType") /\ e.meta.actionType # ""
       THEN e.meta.actionType
       ELSE ""

\* Ledger.variety
Variety(l) ==
  Cardinality({<<l.entries[i].type, SubKind(l.entries[i])>> : i \in 1..Len(l.entries)})

RECURSIVE StreakFrom(_, _, _)
StreakFrom(l, type, i) ==
  IF i < 1 THEN 0
  ELSE IF l.entries[i].type = type THEN 1 + StreakFrom(l, type, i - 1) ELSE 0

\* Ledger.currentStreak
CurrentStreak(l, type) == StreakFrom(l, type, Len(l.entries))

\* Ledger.recent: entries.slice(-n).reverse(); slice(-0) is the whole array
Recent(l, n) ==
  LET len   == Len(l.entries)
      start == IF n = 0 THEN 1
               ELSE IF n < 0 THEN Min(len + 1, 1 - n)
               ELSE Max(1, len - n + 1)
      cnt   == len - start + 1
  IN  [i \in 1..cnt |-> l.entries[len - i + 1]]

\* Ledger.serialize
LedgerSerialize(l) ==
  [halfLife |-> l.halfLife, tick |-> l.tick,
   entries |-> [i \in 1..Len(l.entries) |->
                  [type |-> l.entries[i].type, tick |-> l.entries[i].tick,
                   meta |-> l.entries[i].meta]]]

\* Ledger.deserialize
LedgerDeserialize(data) ==
  [NewLedger(data.halfLife) EXCEPT
     !.tick = data.tick,
     !.entries = [i \in 1..Len(data.entries) |->
                    [type |-> data.entries[i].type, tick |-> data.entries[i].tick,
                     meta |-> data.entries[i].meta]]]

\* ------------------------------------------------------------------------
\* Mood, continued: resolution from the ledger
\* ------------------------------------------------------------------------

\* new Mood(personality, {hysteresis, attractorStrength})
NewMood(personality, hysteresis, attractorStrength) ==
  LET p == Normalize(FromPartial(personality))
  IN  [personality |-> p, hysteresis |-> hysteresis,
       attractorStrength |-> attractorStrength,
       vector |-> p, lastResolvedTick |-> -1]

ZeroVec == [d \in Dims |-> 0]

\* vec with delta[d] added on the dimensions delta names
Add(vec, delta) ==
  [d \in Dims |-> vec[d] + (IF d \in DOMAIN delta THEN delta[d] ELSE 0)]

RECURSIVE OfferImpactFrom(_, _)
\* sum of ev * weight over the non-synthetic offers
OfferImpactFrom(offers, i) ==
  IF i > Len(offers) THEN 0
  ELSE (IF Get(offers[i].meta, "synthetic", FALSE) = TRUE THEN 0
        ELSE Mul(Get(offers[i].meta, "effectiveValue",
                     Get(offers[i].meta, "value", 3000)), offers[i].weight))
       + OfferImpactFrom(offers, i + 1)

\* Mood._computeImpulse, offerings
OfferImpulse(l) ==
  LET offerImpact == OfferImpactFrom(OfType(l, "offer"), 1)
  IN  IF offerImpact > 0
      THEN [serenity |-> Coef(offerImpact, 4, 100),
            hunger   |-> 0 - Coef(offerImpact, 3, 100),
            wrath    |-> 0 - Coef(offerImpact, 2, 100)]
      ELSE IF offerImpact < 0
      THEN [wrath |-> 0 - Coef(offerImpact, 6, 100), amusement |-> 100]
      ELSE [wrath |-> 0]

\* Mood._computeImpulse, variety
VarietyImpulse(l) == [amusement |-> Min(Variety(l) * 200, 1000)]

\* the contribution of one world action
ActionImpact(a) ==
  LET favor  == Get(a.meta, "favor", 0)
      mag    == Get(a.meta, "magnitude", 3000)
      impact == Mul(Mul(favor, mag), a.weight)
  IN  IF impact > 0
      THEN [serenity  |-> Coef(impact, 3, 100),
            amusement |-> Coef(impact, 2, 100),
            wrath     |-> 0 - Coef(impact, 1, 100)]
      ELSE IF impact < 0
      THEN [wrath    |-> 0 - Coef(impact, 4, 100),
            sorrow   |-> 0 - Coef(impact, 2, 100),
            serenity |-> Coef(impact, 2, 100)]
      ELSE [wrath |-> 0]

RECURSIVE ActionImpulseFrom(_, _)
ActionImpulseFrom(actions, i) ==
  IF i > Len(actions) THEN ZeroVec
  ELSE Add(ActionImpulseFrom(actions, i + 1), ActionImpact(actions[i]))

\* Mood._computeImpulse, world actions
ActionImpulse(l) == ActionImpulseFrom(OfType(l, "action"), 1)

\* Mood._computeImpulse, prayer
PrayerImpulse(l) ==
  LET prayWeight == WeightedCount(l, "pray")
      prayStreak == CurrentStreak(l, "pray")
  IN  IF prayStreak > 2
      THEN [wrath |-> prayStreak * 500, amusement |-> -300]
      ELSE IF prayWeight > 0 /\ prayWeight < 15000
      THEN [serenity |-> 300]
      ELSE [wrath |-> 0]

\* Mood._computeImpulse, desecration
DesecrationImpulse(l) ==
  LET desecrateWeight == WeightedCount(l, "desecrate")
  IN  [wrath    |-> Coef(desecrateWeight, 10, 100),
       chaos    |-> Coef(desecrateWeight, 6, 100),
       serenity |-> 0 - Coef(desecrateWeight, 8, 100)]

\* Math.min(ticksSinceAny / 20, 1) over offer and pray
NeglectFactor(l) ==
  LET ticksSinceAny == Min(TicksSinceLast(l, "offer"), TicksSinceLast(l, "pray"))
  IN  Min(RDiv(ticksSinceAny * SCALE, 20), SCALE)

\* Mood._computeImpulse, neglect
NeglectImpulse(l) ==
  LET neglectWeight == WeightedCount(l, "neglect")
      neglectFactor == NeglectFactor(l)
  IN  [hunger   |-> Coef(neglectWeight, 3, 100) + Coef(neglectFactor, 5, 100),
       sorrow   |-> Coef(neglectFactor, 4, 100),
       serenity |-> 0 - Coef(neglectFactor, 3, 100)]

\* Mood._computeImpulse, repetition: unique types among the last five < 1/2
RepetitionImpulse(l) ==
  LET last5 == Recent(l, 5)
      types == {last5[i].type : i \in 1..Len(last5)}
  IN  IF Len(l.entries) > 0 /\ 2 * Cardinality(types) < Len(last5)
      THEN [amusement |-> -300, wrath |-> 200]
      ELSE [wrath |-> 0]

\* Mood._computeImpulse
ComputeImpulse(l) ==
  Add(Add(Add(Add(Add(Add(Add(ZeroVec,
      OfferImpulse(l)), VarietyImpulse(l)), ActionImpulse(l)), PrayerImpulse(l)),
      DesecrationImpulse(l)), NeglectImpulse(l)), RepetitionImpulse(l))

\* Mood._computeAttractor
ComputeAttractor(m) ==
  [d \in Dims |-> Mul(m.personality[d] - m.vector[d], m.attractorStrength)]

\* the body of Mood.resolve after the guard: blend, hysteresis, normalize
Blend(m, l) ==
  LET impulse   == ComputeImpulse(l)
      attractor == ComputeAttractor(m)
      raw == [d \in Dims |->
                LET current    == m.vector[d]
                    resistance == Mul(current, m.hysteresis)
                    delta      == impulse[d] + attractor[d]
                    effective  == IF delta > 0
                                  THEN Mul(delta, SCALE - resistance)
                                  ELSE Mul(delta, SCALE + resistance)
                IN  current + effective]
  IN  Normalize(raw)

\* a faulty resolve that does not note the tick it has resolved
ResolveUnnoted(m, l, currentTick) ==
  IF currentTick = m.lastResolvedTick THEN m
  ELSE [m EXCEPT !.vector = Blend(m, l)]

\* a faulty resolve without the lastResolvedTick guard
ResolveUnguarded(m, l, currentTick) ==
  [m EXCEPT !.vector = Blend(m, l), !.lastResolvedTick = currentTick]

\* Mood.resolve
Resolve(m, l, currentTick) ==
  IF currentTick = m.lastResolvedTick THEN m
  ELSE [m EXCEPT !.vector = Blend(m, l), !.lastResolvedTick = currentTick]

\* Mood.query({precise: false}): the fuzzed, re-normalized read
FuzzyRead(m) ==
  Normalize([d \in Dims |->
     LET v     == m.vector[d]
         noise == SinAmp(v * 100000 + IndexOf(d) * 1000000, 200)
     IN  Max(0, Min(SCALE, v + noise))])

\* a faulty query whose fuzzy read overwrites the vector it read
MoodQueryAliased(m, precise) ==
  [mood |-> IF precise THEN m ELSE [m EXCEPT !.vector = FuzzyRead(m)],
   value |-> IF precise THEN m.vector ELSE FuzzyRead(m)]

\* Mood.query: the mood after the call and the vector returned (a copy)
MoodQuery(m, precise) ==
  [mood |-> m, value |-> IF precise THEN m.vector ELSE FuzzyRead(m)]

RECURSIVE DominantFrom(_, _, _, _)
DominantFrom(vec, i, max, dom) ==
  IF i > Len(DIMENSIONS) THEN [dimension |-> dom, value |-> max]
  ELSE IF vec[DIMENSIONS[i]] > max
       THEN DominantFrom(vec, i + 1, vec[DIMENSIONS[i]], DIMENSIONS[i])
       ELSE DominantFrom(vec, i + 1, max, dom)

\* Mood.dominant
Dominant(m) == DominantFrom(m.vector, 1, 0 - SCALE, "null")

\* Mood.exceeds
Exceeds(m, dimension, threshold) == m.vector[dimension] > threshold

\* Mood.serialize
MoodSerialize(m) ==
  [personality |-> m.personality, vector |-> m.vector, hysteresis |-> m.hysteresis,
   attractorStrength |-> m.attractorStrength, lastResolvedTick |-> m.lastResolvedTick]

\* Mood.deserialize
MoodDeserialize(data) ==
  [NewMood(data.personality, data.hysteresis, data.attractorStrength) EXCEPT
     !.vector = data.vector, !.lastResolvedTick = data.lastResolvedTick]

\* ------------------------------------------------------------------------
\* Supplicant (src/supplicant.js)
\* ------------------------------------------------------------------------

DEFAULT_SEQUENCE_LENGTH == 10

Types == {"offer", "action", "pray", "desecrate", "neglect"}

\* new Supplicant({sequenceLength}); null is the string "null"
NewSupplicant(sequenceLength) ==
  [seqLen |-> sequenceLength, history |-> <<>>, freq |-> [t \in Types |-> 0],
   total |-> 0, correct |-> 0, lastPrediction |-> "null",
   lastConfidence |-> 0, surprise |-> 0]

\* arr.slice(-n): the last n elements; slice(-0) is the whole array
SliceLast(arr, n) ==
  IF n <= 0 \/ n >= Len(arr) THEN arr
  ELSE SubSeq(arr, Len(arr) - n + 1, Len(arr))

CountIn(window, t) == Cardinality({i \in 1..Len(window) : window[i] = t})

RECURSIVE BestFromLatest(_, _, _, _)
\* a faulty loop of _predict in which a later key wins with an equal count
BestFromLatest(window, i, bestType, bestCount) ==
  IF i > Len(window) THEN [type |-> bestType, count |-> bestCount]
  ELSE IF CountIn(window, window[i]) >= bestCount
       THEN BestFromLatest(window, i + 1, window[i], CountIn(window, window[i]))
       ELSE BestFromLatest(window, i + 1, bestType, bestCount)

RECURSIVE BestFrom(_, _, _, _)
\* the loop of _predict over Object.entries(counts): keys in order of first
\* appearance in the window, a later key wins only with a greater count
BestFrom(window, i, bestType, bestCount) ==
  IF i > Len(window) THEN [type |-> bestType, count |-> bestCount]
  ELSE IF CountIn(window, window[i]) > bestCount
       THEN BestFrom(window, i + 1, window[i], CountIn(window, window[i]))
       ELSE BestFrom(window, i + 1, bestType, bestCount)

\* Supplicant._predict
Predict(s) ==
  LET window == SliceLast(s.history, s.seqLen)
      best   == BestFrom(window, 1, "null", 0)
  IN  [s EXCEPT !.lastPrediction = best.type,
                !.lastConfidence = IF Len(window) > 0
                                   THEN RDiv(best.count * SCALE, Len(window)) ELSE 0]

\* a faulty record that counts every unsurprising call as a correct prediction
SupplicantRecordEager(s, type) ==
  LET predicted == s.lastPrediction
      surprised == predicted # "null" /\ predicted # type
      pushed    == Append(s.history, type)
      hist      == IF Len(pushed) > s.seqLen * 3
                   THEN SliceLast(pushed, s.seqLen * 2) ELSE pushed
      s1 == [s EXCEPT
               !.correct  = IF ~surprised THEN @ + 1 ELSE @,
               !.surprise = IF surprised THEN Min(SCALE, @ + 3000)
                            ELSE Max(0, @ - 1000),
               !.history  = hist,
               !.freq     = [@ EXCEPT ![type] = @ + 1],
               !.total    = @ + 1]
  IN  [state |-> Predict(s1),
       result |-> [predicted |-> predicted, surprised |-> surprised]]

\* a faulty record that trims the history to its newest element
SupplicantRecordTrimmed(s, type) ==
  LET predicted == s.lastPrediction
      surprised == predicted # "null" /\ predicted # type
      pushed    == Append(s.history, type)
      hist      == IF Len(pushed) > s.seqLen * 3
                   THEN SliceLast(pushed, 1) ELSE pushed
      s1 == [s EXCEPT
               !.correct  = IF predicted = type THEN @ + 1 ELSE @,
               !.surprise = IF surprised THEN Min(SCALE, @ + 3000)
                            ELSE Max(0, @ - 1000),
               !.history  = hist,
               !.freq     = [@ EXCEPT ![type] = @ + 1],
               !.total    = @ + 1]
  IN  [state |-> Predict(s1),
       result |-> [predicted |-> predicted, surprised |-> surprised]]

\* Supplicant.record: the new state and the returned {predicted, surprised}
SupplicantRecord(s, type) ==
  LET predicted == s.lastPrediction
      surprised == predicted # "null" /\ predicted # type
      pushed    == Append(s.history, type)
      hist      == IF Len(pushed) > s.seqLen * 3
                   THEN SliceLast(pushed, s.seqLen * 2) ELSE pushed
      s1 == [s EXCEPT
               !.correct  = IF predicted = type THEN @ + 1 ELSE @,
               !.surprise = IF surprised THEN Min(SCALE, @ + 3000)
                            ELSE Max(0, @ - 1000),
               !.history  = hist,
               !.freq     = [@ EXCEPT ![type] = @ + 1],
               !.total    = @ + 1]
  IN  [state |-> Predict(s1),
       result |-> [predicted |-> predicted, surprised |-> surprised]]

\* a faulty omniscient without the floor of ten interactions
OmniscientUnguarded(s) == s.correct * 100 > 85 * s.total

\* Supplicant.omniscient: correct / total > 0.85
Omniscient(s) ==
  IF s.total < 10 THEN FALSE ELSE s.correct * 100 > 85 * s.total

\* Supplicant.serialize
SupplicantSerialize(s) ==
  [seqLen |-> s.seqLen, history |-> s.history, freq |-> s.freq, total |-> s.total,
   correct |-> s.correct, lastPrediction |-> s.lastPrediction,
   lastConfidence |-> s.lastConfidence, surprise |-> s.surprise]

\* Supplicant.deserialize
SupplicantDeserialize(data) ==
  [NewSupplicant(data.seqLen) EXCEPT
     !.history = data.history, !.freq = data.freq, !.total = data.total,
     !.correct = data.correct, !.lastPrediction = data.lastPrediction,
     !.lastConfidence = data.lastConfidence, !.surprise = data.surprise]

\* ------------------------------------------------------------------------
\* Deity (src/deity.js)
\* ------------------------------------------------------------------------

EVENTS == <<"moodShift", "utterance", "demand", "omen", "miracle", "wrath">>

EventSet == {EVENTS[i] : i \in 1..Len(EVENTS)}

\* the constructor's default favor map
DefaultFavorMap ==
  [kill |-> 0, steal |-> 0, heal |-> 2000, destroy |-> -1000,
   create |-> 2000, betray |-> -3000, protect |-> 3000]

\* the constructor's default thresholds
DefaultThresholds == [wrath |-> 4000, miracle |-> 5000, demand |-> 3500, omen |-> 3000]

\* the constructor's default neglectThreshold
DefaultNeglectThreshold == 3

\* new Deity(opts): opts is a record holding every option
NewDeity(opts) ==
  [name             |-> opts.name,
   alignment        |-> opts.alignment,
   ledger           |-> NewLedger(opts.decayHalfLife),
   mood             |-> NewMood(opts.personality, opts.hysteresis, opts.attractorStrength),
   supplicant       |-> NewSupplicant(opts.sequenceLength),
   favorMap         |-> opts.favorMap @@ DefaultFavorMap,
   listeners        |-> [e \in EventSet |-> <<>>],
   thresholds       |-> opts.thresholds @@ DefaultThresholds,
   neglectThreshold |-> opts.neglectThreshold,
   prevDominant     |-> "null",
   tick             |-> 0]

\* Deity.on for a known event: push fn
On(d, event, fn) == [d EXCEPT !.listeners[event] = Append(@, fn)]

\* names every plain object inherits from Object.prototype: a lookup of one
\* of them in _listeners yields a truthy value that is not an array
Inherited == {"constructor", "toString", "valueOf", "hasOwnProperty"}

\* a faulty on() that creates the list of an event it does not know
OnCallLenient(d, event, fn) ==
  IF event \in DOMAIN d.listeners
  THEN [d |-> On(d, event, fn), threw |-> FALSE]
  ELSE [d |-> [d EXCEPT !.listeners = @ @@ (event :> <<fn>>)], threw |-> FALSE]

\* Deity.on(event, fn): the deity after the call and whether the call threw.
\* An unknown name fails the guard (Error); an inherited name passes it and
\* fails at .push, which the value found does not have (TypeError).
OnCall(d, event, fn) ==
  IF event \in DOMAIN d.listeners
  THEN [d |-> On(d, event, fn), threw |-> FALSE]
  ELSE IF event \in Inherited
  THEN [d |-> d, threw |-> TRUE]
  ELSE [d |-> d, threw |-> TRUE]

\* a faulty unsubscribe that drops the listener registered last, whichever
\* function it is
UnsubscribeLast(d, event, fn) ==
  [d EXCEPT !.listeners[event] =
     IF Len(@) = 0 THEN @ ELSE SubSeq(@, 1, Len(@) - 1)]

\* a faulty unsubscribe that treats registrations as independent and drops
\* only the oldest registration of fn
UnsubscribeOnce(d, event, fn) ==
  LET fns == d.listeners[event]
      idx == {i \in 1..Len(fns) : fns[i] = fn}
  IN  IF idx = {} THEN d
      ELSE LET k == CHOOSE i \in idx : \A j \in idx : i <= j
           IN  [d EXCEPT !.listeners[event] =
                  SubSeq(fns, 1, k - 1) \o SubSeq(fns, k + 1, Len(fns))]

\* the closure Deity.on returns: filter out every registration of fn
Unsubscribe(d, event, fn) ==
  [d EXCEPT !.listeners[event] = SelectSeq(@, LAMBDA f : f # fn)]

\* The callbacks a consumer registers.  "log" and "log2" only observe;
\* "boom" throws; "drop" calls the unsubscribe closure of "log2" for the event
\* it is invoked for; "once" calls its own unsubscribe closure
\* (const off = deity.on(event, () => off())).
Fns == {"log", "log2", "boom", "drop", "once"}

\* fn(data): the deity after the call and whether the call threw
CallListener(d, event, fn) ==
  [d |-> IF fn = "drop" THEN Unsubscribe(d, event, "log2")
         ELSE IF fn = "once" THEN Unsubscribe(d, event, "once")
         ELSE d,
   threw |-> fn = "boom"]

\* a faulty _emit without the try/catch around the callback
Uncaught(threw) == threw

\* try { fn(data) } catch (e) { }: whether fn's exception leaves _emit
Escapes(threw) == FALSE

RECURSIVE EmitFromLive(_, _, _, _, _)
\* a faulty _emit that walks by index the list the deity holds at each step,
\* so that a removal made by a callback shifts the listeners still to run
EmitFromLive(st, event, data, fns, i) ==
  LET live == st.d.listeners[event]
  IN  IF i > Len(live) THEN st
      ELSE LET r  == CallListener(st.d, event, live[i])
               s1 == [d |-> r.d,
                      log |-> Append(st.log, [event |-> event, fn |-> live[i], data |-> data]),
                      thrown |-> Escapes(r.threw)]
           IN  IF s1.thrown THEN s1 ELSE EmitFromLive(s1, event, data, fns, i + 1)

RECURSIVE EmitFrom(_, _, _, _, _)
\* the loop of Deity._emit over the array read when the loop starts;
\* st = [d, log, thrown], the log holding one record per callback invoked
EmitFrom(st, event, data, fns, i) ==
  IF i > Len(fns) THEN st
  ELSE LET r  == CallListener(st.d, event, fns[i])
           s1 == [d |-> r.d,
                  log |-> Append(st.log, [event |-> event, fn |-> fns[i], data |-> data]),
                  thrown |-> Escapes(r.threw)]
       IN  IF s1.thrown THEN s1 ELSE EmitFrom(s1, event, data, fns, i + 1)

\* Deity._emit
Emit(st, event, data) == EmitFrom(st, event, data, st.d.listeners[event], 1)

\* a faulty modulation that records boredom after every correct prediction,
\* without asking whether the supplicant has become fully predictable
ModulateAlwaysBored(d, surprise) ==
  IF surprise.predicted = "null" THEN d
  ELSE IF surprise.surprised
  THEN [d EXCEPT !.ledger = LedgerRecord(@, "offer",
            [offeringType |-> "_surprise_bonus", synthetic |-> TRUE])]
  ELSE [d EXCEPT !.ledger = LedgerRecord(@, "neglect",
            [synthetic |-> TRUE, reason |-> "predictability"])]

\* Deity._modulateFromSurprise
ModulateFromSurprise(d, surprise) ==
  IF surprise.predicted = "null" THEN d
  ELSE IF surprise.surprised
  THEN [d EXCEPT !.ledger = LedgerRecord(@, "offer",
            [offeringType |-> "_surprise_bonus", synthetic |-> TRUE])]
  ELSE IF Omniscient(d.supplicant)
  THEN [d EXCEPT !.ledger = LedgerRecord(@, "neglect",
            [synthetic |-> TRUE, reason |-> "predictability"])]
  ELSE d

\* a faulty variant that re-derives the mood as soon as an interaction is
\* recorded instead of leaving it to tick()
RecordAndResolve(d, type) ==
  LET r  == SupplicantRecord(d.supplicant, type)
      d1 == ModulateFromSurprise([d EXCEPT !.supplicant = r.state], r.result)
  IN  [d1 EXCEPT !.mood.vector = Blend(d1.mood, d1.ledger)]

\* this.supplicant.record(type) followed by _modulateFromSurprise
RecordAndModulate(d, type) ==
  LET r == SupplicantRecord(d.supplicant, type)
  IN  ModulateFromSurprise([d EXCEPT !.supplicant = r.state], r.result)

\* Math.max(0, Math.min(1, x))
Clamp01(x) == Max(0, Min(SCALE, x))

\* Deity.offer(type, meta)
Offer(d, type, meta) ==
  LET value     == Clamp01(Get(meta, "value", 3000))
      alignment == Get(meta, "alignment", "neutral")
      effectiveValue ==
        IF d.alignment # ""
        THEN IF alignment = d.alignment THEN Coef(value, 15, 10)
             ELSE IF alignment # "neutral" THEN Coef(value, -5, 10)
             ELSE value
        ELSE value
      full == meta @@ [offeringType |-> type, value |-> value,
                       effectiveValue |-> effectiveValue, alignment |-> alignment]
  IN  RecordAndModulate([d EXCEPT !.ledger = LedgerRecord(@, "offer", full)], "offer")

\* the empty metadata object {}
NoMeta == [k \in {} |-> 0]

\* Deity.pray()
Pray(d) ==
  RecordAndModulate([d EXCEPT !.ledger = LedgerRecord(@, "pray", NoMeta)], "pray")

\* Deity.desecrate(type)
Desecrate(d, type) ==
  RecordAndModulate(
    [d EXCEPT !.ledger = LedgerRecord(@, "desecrate", [desecrationType |-> type])],
    "desecrate")

\* Deity.action(type, meta)
Action(d, type, meta) ==
  LET magnitude == Clamp01(Get(meta, "magnitude", 3000))
      favor     == Get(d.favorMap, type, 0)
      full == meta @@ [actionType |-> type, magnitude |-> magnitude, favor |-> favor]
  IN  [d EXCEPT !.ledger = LedgerRecord(@, "action", full),
                !.supplicant = SupplicantRecord(@, "offer").state]

\* Deity.query(): the deity after the call and the object returned
Query(d) ==
  LET r == MoodQuery(d.mood, FALSE)
  IN  [d |-> [d EXCEPT !.mood = r.mood],
       value |-> [mood |-> r.value, dominant |-> Dominant(r.mood), tick |-> d.tick]]

\* Deity._queryPrecise()
QueryPrecise(d) ==
  LET r == MoodQuery(d.mood, TRUE)
  IN  [d |-> [d EXCEPT !.mood = r.mood], value |-> r.value]

\* Deity._miracleChance: (sin(tick * 127.1) * 0.5 + 0.5) < 0.02, in 1/1000
MiracleChance(d) == SinAmp(d.tick * (127100000 % TWO_PI_URAD), 500) + 500 < 20

\* Deity._shouldSpeak: (sin(tick * 43.7 + 17.3) * 0.5 + 0.5) < threshold
ShouldSpeak(d) ==
  LET threshold == 100 + (IF Dominant(d.mood).value > 5000 THEN 150 ELSE 0)
  IN  SinAmp(d.tick * (43700000 % TWO_PI_URAD) + 17300000, 500) + 500 < threshold

\* one conditional emission of _checkEvents: skipped once an exception is
\* propagating out of the tick
EmitIf(st, cond, event, data) ==
  IF st.thrown \/ ~cond THEN st ELSE Emit(st, event, data)

\* a faulty _checkEvents whose threshold tests are chained with else: once
\* wrath has fired, demand and omen are not looked at
CheckEventsElse(st) ==
  LET d0      == st.d
      precise == QueryPrecise(d0).value
      dom     == Dominant(d0.mood)
      s1 == EmitIf(st, d0.prevDominant # "null" /\ d0.prevDominant # dom.dimension,
                   "moodShift",
                   [from |-> d0.prevDominant, to |-> dom.dimension,
                    mood |-> MoodQuery(d0.mood, FALSE).value, tick |-> d0.tick])
      s2 == IF s1.thrown THEN s1 ELSE [s1 EXCEPT !.d.prevDominant = dom.dimension]
      s5 == IF precise.wrath > d0.thresholds.wrath
            THEN EmitIf(s2, TRUE, "wrath", [intensity |-> precise.wrath, tick |-> d0.tick])
            ELSE IF precise.hunger > d0.thresholds.demand
            THEN EmitIf(s2, TRUE, "demand", [intensity |-> precise.hunger, tick |-> d0.tick])
            ELSE EmitIf(s2, precise.chaos > d0.thresholds.omen, "omen",
                        [intensity |-> precise.chaos, tick |-> d0.tick])
      s6 == EmitIf(s5, precise.serenity > d0.thresholds.miracle
                       /\ precise.wrath < 1000 /\ MiracleChance(d0),
                   "miracle", [serenity |-> precise.serenity, tick |-> d0.tick])
      s7 == EmitIf(s6, ShouldSpeak(d0), "utterance",
                   [mood |-> MoodQuery(d0.mood, FALSE).value, dominant |-> dom,
                    surprise |-> d0.supplicant.surprise, tick |-> d0.tick])
  IN  s7

\* a faulty _checkEvents that lets the deity speak before anything else
CheckEventsUtterFirst(st) ==
  LET d0      == st.d
      precise == QueryPrecise(d0).value
      dom     == Dominant(d0.mood)
      s0 == EmitIf(st, ShouldSpeak(d0), "utterance",
                   [mood |-> MoodQuery(d0.mood, FALSE).value, dominant |-> dom,
                    surprise |-> d0.supplicant.surprise, tick |-> d0.tick])
      s1 == EmitIf(s0, d0.prevDominant # "null" /\ d0.prevDominant # dom.dimension,
                   "moodShift",
                   [from |-> d0.prevDominant, to |-> dom.dimension,
                    mood |-> MoodQuery(d0.mood, FALSE).value, tick |-> d0.tick])
      s2 == IF s1.thrown THEN s1 ELSE [s1 EXCEPT !.d.prevDominant = dom.dimension]
      s3 == EmitIf(s2, precise.wrath > d0.thresholds.wrath, "wrath",
                   [intensity |-> precise.wrath, tick |-> d0.tick])
      s4 == EmitIf(s3, precise.hunger > d0.thresholds.demand, "demand",
                   [intensity |-> precise.hunger, tick |-> d0.tick])
      s5 == EmitIf(s4, precise.chaos > d0.thresholds.omen, "omen",
                   [intensity |-> precise.chaos, tick |-> d0.tick])
      s6 == EmitIf(s5, precise.serenity > d0.thresholds.miracle
                       /\ precise.wrath < 1000 /\ MiracleChance(d0),
                   "miracle", [serenity |-> precise.serenity, tick |-> d0.tick])
  IN  s6

\* Deity._checkEvents; st = [d, log, thrown]
CheckEvents(st) ==
  LET d0      == st.d
      precise == QueryPrecise(d0).value
      dom     == Dominant(d0.mood)
      s1 == EmitIf(st, d0.prevDominant # "null" /\ d0.prevDominant # dom.dimension,
                   "moodShift",
                   [from |-> d0.prevDominant, to |-> dom.dimension,
                    mood |-> MoodQuery(d0.mood, FALSE).value, tick |-> d0.tick])
      s2 == IF s1.thrown THEN s1 ELSE [s1 EXCEPT !.d.prevDominant = dom.dimension]
      s3 == EmitIf(s2, precise.wrath > d0.thresholds.wrath, "wrath",
                   [intensity |-> precise.wrath, tick |-> d0.tick])
      s4 == EmitIf(s3, precise.hunger > d0.thresholds.demand, "demand",
                   [intensity |-> precise.hunger, tick |-> d0.tick])
      s5 == EmitIf(s4, precise.chaos > d0.thresholds.omen, "omen",
                   [intensity |-> precise.chaos, tick |-> d0.tick])
      s6 == EmitIf(s5, precise.serenity > d0.thresholds.miracle
                       /\ precise.wrath < 1000 /\ MiracleChance(d0),
                   "miracle", [serenity |-> precise.serenity, tick |-> d0.tick])
      s7 == EmitIf(s6, ShouldSpeak(d0), "utterance",
                   [mood |-> MoodQuery(d0.mood, FALSE).value, dominant |-> dom,
                    surprise |-> d0.supplicant.surprise, tick |-> d0.tick])
  IN  s7

\* a faulty neglect check that takes the neglect entries for interactions
NeglectDueSinceAny(d) ==
  Min(Min(Min(TicksSinceLast(d.ledger, "offer"), TicksSinceLast(d.ledger, "pray")),
          TicksSinceLast(d.ledger, "desecrate")),
      TicksSinceLast(d.ledger, "neglect")) > d.neglectThreshold

\* a faulty neglect check that fires as soon as the threshold is reached
NeglectDueGe(d) ==
  Min(Min(TicksSinceLast(d.ledger, "offer"), TicksSinceLast(d.ledger, "pray")),
      TicksSinceLast(d.ledger, "desecrate")) >= d.neglectThreshold

\* the neglect check of Deity.tick
NeglectDue(d) ==
  Min(Min(TicksSinceLast(d.ledger, "offer"), TicksSinceLast(d.ledger, "pray")),
      TicksSinceLast(d.ledger, "desecrate")) > d.neglectThreshold

\* Deity.tick, the neglect part of the loop body
RecordNeglect(d) ==
  IF NeglectDue(d)
  THEN [d EXCEPT !.ledger = LedgerRecord(@, "neglect", [synthetic |-> TRUE]),
                 !.supplicant = SupplicantRecord(@, "neglect").state]
  ELSE d

\* Deity.tick, one pass of the loop body
TickStep(st) ==
  LET d1 == [st.d EXCEPT !.tick = @ + 1, !.ledger = AdvanceTick(@, 1)]
      d2 == RecordNeglect(d1)
      d3 == [d2 EXCEPT !.mood = Resolve(@, d2.ledger, d2.tick)]
  IN  CheckEvents([st EXCEPT !.d = d3])

\* a faulty tick that jumps dt ticks ahead and then checks neglect, resolves
\* and evaluates events once
TickBatch(st, i, dt) ==
  IF i >= dt THEN st
  ELSE LET d1 == [st.d EXCEPT !.tick = @ + dt, !.ledger = AdvanceTick(@, dt)]
           d2 == RecordNeglect(d1)
           d3 == [d2 EXCEPT !.mood = Resolve(@, d2.ledger, d2.tick)]
       IN  CheckEvents([st EXCEPT !.d = d3])

RECURSIVE TickLoop(_, _, _)
\* for (let i = 0; i < dt; i++) { ... }
TickLoop(st, i, dt) ==
  IF i >= dt \/ st.thrown THEN st ELSE TickLoop(TickStep(st), i + 1, dt)

\* Deity.tick(dt): the deity after the call, the callbacks invoked, and
\* whether an exception left the call
Tick(d, dt) == TickLoop([d |-> d, log |-> <<>>, thrown |-> FALSE], 0, dt)

\* Deity.serialize
Serialize(d) ==
  [name |-> d.name, alignment |-> d.alignment, favorMap |-> d.favorMap,
   tick |-> d.tick, ledger |-> LedgerSerialize(d.ledger),
   mood |-> MoodSerialize(d.mood), supplicant |-> SupplicantSerialize(d.supplicant),
   thresholds |-> d.thresholds, neglectThreshold |-> d.neglectThreshold,
   prevDominant |-> d.prevDominant]

\* the constructor defaults of the options Deity.deserialize does not pass
DefaultOpts ==
  [name |-> "The Unnamed", alignment |-> "neutral", personality |-> NoMeta,
   hysteresis |-> 3000, attractorStrength |-> 500,
   decayHalfLife |-> DEFAULT_HALF_LIFE, sequenceLength |-> DEFAULT_SEQUENCE_LENGTH,
   thresholds |-> NoMeta, favorMap |-> NoMeta,
   neglectThreshold |-> DefaultNeglectThreshold]

\* Deity.deserialize
Deserialize(data) ==
  LET fresh == NewDeity([DefaultOpts EXCEPT
                 !.name = data.name, !.alignment = data.alignment,
                 !.favorMap = data.favorMap, !.thresholds = data.thresholds,
                 !.neglectThreshold = data.neglectThreshold])
  IN  [fresh EXCEPT
         !.tick = data.tick,
         !.ledger = LedgerDeserialize(data.ledger),
         !.mood = MoodDeserialize(data.mood),
         !.supplicant = SupplicantDeserialize(data.supplicant),
         !.prevDominant = data.prevDominant]

\* ------------------------------------------------------------------------
\* The program as a state machine: one action per public operation
\* ------------------------------------------------------------------------

VARIABLES
  deity,     \* the Deity object the caller holds
  opts,      \* the options it was constructed with
  scope,     \* the part of the input space explored (fixed by Init)
  handles,   \* the unsubscribe closures on() has returned, as <<event, fn>>
  lastOp,    \* the operation performed last, with its arguments
  ret,       \* what it returned
  threw,     \* whether it threw
  emitted,   \* the callbacks it invoked, in order
  seen       \* the first two results of each query mode in the current run of queries

vars == <<deity, opts, scope, handles, lastOp, ret, threw, emitted, seen>>

\* no query result read yet
NothingSeen == [fuzzy |-> <<>>, precise |-> <<>>]

\* the defaults of every constructor option
PlainOpts == DefaultOpts

\* a wrathful, lawful deity with a short memory that soon feels neglected
WrathOpts ==
  [DefaultOpts EXCEPT
     !.name = "Tyr", !.alignment = "lawful",
     !.personality = [wrath |-> 4000, serenity |-> 1000, hunger |-> 1000,
                      amusement |-> 0, sorrow |-> 0, chaos |-> 0],
     !.hysteresis = 2500, !.attractorStrength = 400,
     !.decayHalfLife = 2, !.neglectThreshold = 1,
     !.favorMap = [kill |-> -8000]]

\* a malformed personality: no positive component
VoidOpts ==
  [DefaultOpts EXCEPT
     !.name = "Void",
     !.personality = [wrath |-> -5000, serenity |-> 0, hunger |-> 0,
                      amusement |-> 0, sorrow |-> 0, chaos |-> 0],
     !.neglectThreshold = 0, !.decayHalfLife = 1]

\* a malformed personality: components outside [0,1], one of them negative
WildOpts ==
  [DefaultOpts EXCEPT
     !.name = "Wild",
     !.personality = [wrath |-> -5000, serenity |-> 15000, chaos |-> 20000],
     !.neglectThreshold = 0, !.decayHalfLife = 1]

\* bounds of the exploration
MaxEntries == 3

MaxTick == 2

MaxDt == 2

\* caller inputs explored
OfferMetas == {NoMeta, [value |-> 15000, alignment |-> "chaotic"]}

ActionMetas == {[magnitude |-> 9000, target |-> "dragon"]}

ActionTypes == {"kill", "heal"}

CoreScope ==
  [maxEntries |-> MaxEntries, maxTick |-> MaxTick, maxDt |-> MaxDt, maxListeners |-> 0]

\* malformed options are explored one interaction and one tick deep
EdgeScope == [maxEntries |-> 1, maxTick |-> 1, maxDt |-> 1, maxListeners |-> 0]

Start(o, sc) ==
  /\ opts = o
  /\ scope = sc
  /\ deity = NewDeity(o)
  /\ handles = {}
  /\ lastOp = [op |-> "new"]
  /\ ret = "undefined"
  /\ threw = FALSE
  /\ emitted = <<>>
  /\ seen = NothingSeen

Init ==
  \/ \E o \in {PlainOpts, WrathOpts} : Start(o, CoreScope)
  \/ \E o \in {VoidOpts, WildOpts} : Start(o, EdgeScope)

Fits(d) == Len(d.ledger.entries) <= scope.maxEntries /\ d.tick <= scope.maxTick

OfferOp(type, meta) ==
  LET d == Offer(deity, type, meta)
  IN  /\ Fits(d)
      /\ deity' = d
      /\ lastOp' = [op |-> "offer", type |-> type, meta |-> meta]
      /\ ret' = "undefined"
      /\ threw' = FALSE
      /\ emitted' = <<>>
      /\ seen' = NothingSeen
      /\ UNCHANGED <<opts, scope, handles>>

\* run: how many pray() calls in a row this one completes (3: three or more)
PrayOp ==
  LET d == Pray(deity)
  IN  /\ Fits(d)
      /\ deity' = d
      /\ lastOp' = [op |-> "pray",
                    run |-> IF lastOp.op = "pray" THEN Min(lastOp.run + 1, 3) ELSE 1]
      /\ ret' = "undefined"
      /\ threw' = FALSE
      /\ emitted' = <<>>
      /\ seen' = NothingSeen
      /\ UNCHANGED <<opts, scope, handles>>

DesecrateOp(type) ==
  LET d == Desecrate(deity, type)
  IN  /\ Fits(d)
      /\ deity' = d
      /\ lastOp' = [op |-> "desecrate", type |-> type]
      /\ ret' = "undefined"
      /\ threw' = FALSE
      /\ emitted' = <<>>
      /\ seen' = NothingSeen
      /\ UNCHANGED <<opts, scope, handles>>

ActionOp(type, meta) ==
  LET d == Action(deity, type, meta)
  IN  /\ Fits(d)
      /\ deity' = d
      /\ lastOp' = [op |-> "action", type |-> type, meta |-> meta]
      /\ ret' = "undefined"
      /\ threw' = FALSE
      /\ emitted' = <<>>
      /\ seen' = NothingSeen
      /\ UNCHANGED <<opts, scope, handles>>

TickOp(dt) ==
  LET r == Tick(deity, dt)
  IN  /\ dt <= scope.maxDt
      /\ Fits(r.d)
      /\ deity' = r.d
      /\ lastOp' = [op |-> "tick", dt |-> dt]
      /\ ret' = "undefined"
      /\ threw' = r.thrown
      /\ emitted' = r.log
      /\ seen' = NothingSeen
      /\ UNCHANGED <<opts, scope, handles>>

\* deity.query() and deity._queryPrecise()
QueryOp(precise) ==
  LET r == IF precise THEN QueryPrecise(deity) ELSE Query(deity)
  IN  /\ deity' = r.d
      /\ ret' = r.value
      /\ lastOp' = [op |-> "query", precise |-> precise]
      /\ threw' = FALSE
      /\ emitted' = <<>>
      /\ seen' = IF precise
                 THEN [seen EXCEPT !.precise = IF Len(@) < 2 THEN Append(@, r.value) ELSE @]
                 ELSE [seen EXCEPT !.fuzzy = IF Len(@) < 2 THEN Append(@, r.value) ELSE @]
      /\ UNCHANGED <<opts, scope, handles>>

RECURSIVE SumLen(_, _)
SumLen(f, S) ==
  IF S = {} THEN 0
  ELSE LET x == CHOOSE y \in S : TRUE IN Len(f[x]) + SumLen(f, S \ {x})

ListenerCount(d) == SumLen(d.listeners, EventSet)

\* how many times fn is registered for event
Registrations(d, event, fn) ==
  Cardinality({i \in 1..Len(d.listeners[event]) : d.listeners[event][i] = fn})

OnOp(event, fn) ==
  /\ ListenerCount(deity) < scope.maxListeners
  /\ deity' = On(deity, event, fn)
  /\ handles' = handles \cup {<<event, fn>>}
  /\ lastOp' = [op |-> "on", event |-> event, fn |-> fn]
  /\ ret' = <<event, fn>>
  /\ threw' = FALSE
  /\ emitted' = <<>>
  /\ seen' = NothingSeen
  /\ UNCHANGED <<opts, scope>>

\* on() with a name outside EVENTS
OnUnknownOp(event, fn) ==
  LET r == OnCall(deity, event, fn)
  IN  /\ event \notin EventSet
      /\ deity' = r.d
      /\ handles' = IF r.threw THEN handles ELSE handles \cup {<<event, fn>>}
      /\ lastOp' = [op |-> "on", event |-> event, fn |-> fn]
      /\ ret' = IF r.threw THEN "undefined" ELSE <<event, fn>>
      /\ threw' = r.threw
      /\ emitted' = <<>>
      /\ seen' = NothingSeen
      /\ UNCHANGED <<opts, scope>>

UnsubscribeOp ==
  \E h \in handles :
    /\ deity' = Unsubscribe(deity, h[1], h[2])
    /\ lastOp' = [op |-> "unsubscribe", event |-> h[1], fn |-> h[2],
                  removed |-> Registrations(deity, h[1], h[2])]
    /\ ret' = "undefined"
    /\ threw' = FALSE
    /\ emitted' = <<>>
    /\ seen' = NothingSeen
    /\ UNCHANGED <<opts, scope, handles>>

SerializeOp ==
  /\ ret' = Serialize(deity)
  /\ lastOp' = [op |-> "serialize"]
  /\ threw' = FALSE
  /\ emitted' = <<>>
  /\ seen' = NothingSeen
  /\ UNCHANGED <<deity, opts, scope, handles>>

\* deity = Deity.deserialize(deity.serialize()); the closures returned by the
\* old object's on() no longer reach the object the caller holds
RoundTripOp ==
  /\ deity' = Deserialize(Serialize(deity))
  /\ handles' = {}
  /\ lastOp' = [op |-> "roundtrip"]
  /\ ret' = "undefined"
  /\ threw' = FALSE
  /\ emitted' = <<>>
  /\ seen' = NothingSeen
  /\ UNCHANGED <<opts, scope>>

\* The core: interactions, time and persistence, over the richer inputs
Next ==
  \/ \E meta \in OfferMetas : OfferOp("gold", meta)
  \/ PrayOp
  \/ DesecrateOp("altar")
  \/ \E type \in ActionTypes, meta \in ActionMetas : ActionOp(type, meta)
  \/ \E dt \in 0..MaxDt : TickOp(dt)
  \/ RoundTripOp

Spec == Init /\ [][Next]_vars

\* ------------------------------------------------------------------------
\* The whole public API over a single input of each kind
\* ------------------------------------------------------------------------

MaxListeners == 2

ApiScope ==
  [maxEntries |-> MaxEntries - 1, maxTick |-> MaxTick, maxDt |-> MaxDt - 1,
   maxListeners |-> MaxListeners - 1]

InitApi == Start(WrathOpts, ApiScope)

NextApi ==
  \/ OfferOp("gold", NoMeta)
  \/ PrayOp
  \/ DesecrateOp("altar")
  \/ ActionOp("kill", [magnitude |-> 9000])
  \/ \E dt \in 0..MaxDt : TickOp(dt)
  \/ \E precise \in BOOLEAN : QueryOp(precise)
  \/ \E fn \in {"log", "boom"} : Registrations(deity, "wrath", fn) = 0 /\ OnOp("wrath", fn)
  \/ UnsubscribeOp
  \/ SerializeOp

SpecApi == InitApi /\ [][NextApi]_vars

\* ------------------------------------------------------------------------
\* Event emission: up to three callbacks, few interactions
\* ------------------------------------------------------------------------

EventsScope ==
  [maxEntries |-> MaxEntries - 1, maxTick |-> MaxTick, maxDt |-> MaxDt,
   maxListeners |-> MaxListeners + 1]

InitEvents == Start(WrathOpts, EventsScope)

NextEvents ==
  \/ DesecrateOp("altar")
  \/ \E dt \in 0..MaxDt : TickOp(dt)
  \/ \E event \in {"wrath", "utterance"}, fn \in {"log", "boom"} :
       Registrations(deity, event, fn) = 0 /\ OnOp(event, fn)
  \/ \E event \in {"rapture", "constructor"} : OnUnknownOp(event, "log")
  \/ UnsubscribeOp

SpecEvents == InitEvents /\ [][NextEvents]_vars

\* ------------------------------------------------------------------------
\* Long interaction runs without time: the predictor's feedback
\* ------------------------------------------------------------------------

MaxRun == 11

PredictScope ==
  [maxEntries |-> MaxRun, maxTick |-> 0, maxDt |-> 0, maxListeners |-> 0]

InitPredict == Start(PlainOpts, PredictScope)

NextPredict ==
  \/ OfferOp("gold", NoMeta)
  \/ PrayOp
  \/ DesecrateOp("altar")
  \/ ActionOp("heal", NoMeta)

SpecPredict == InitPredict /\ [][NextPredict]_vars

\* ------------------------------------------------------------------------
\* Direct use of the Mood engine: a caller invoking mood.resolve itself
\* ------------------------------------------------------------------------

\* deity.mood.resolve(deity.ledger, t)
ResolveOp(t) ==
  /\ deity' = [deity EXCEPT !.mood = Resolve(@, deity.ledger, t)]
  /\ lastOp' = [op |-> "resolve", t |-> t, prev |-> deity.mood.lastResolvedTick]
  /\ ret' = "undefined"
  /\ threw' = FALSE
  /\ emitted' = <<>>
  /\ seen' = NothingSeen
  /\ UNCHANGED <<opts, scope, handles>>

InitResolve == \E o \in {PlainOpts, WrathOpts} : Start(o, ApiScope)

NextResolve ==
  \/ \E meta \in OfferMetas : OfferOp("gold", meta)
  \/ PrayOp
  \/ DesecrateOp("altar")
  \/ \E dt \in 0..MaxDt : TickOp(dt)
  \/ ResolveOp(deity.tick)

SpecResolve == InitResolve /\ [][NextResolve]_vars

\* ------------------------------------------------------------------------
\* Out-of-range caller inputs
\* ------------------------------------------------------------------------

WildOfferMetas == {[value |-> 15000], [value |-> 0 - 5000]}

WildActionMetas == {[magnitude |-> 25000], [magnitude |-> 0 - 3000]}

InitInputs == Start(PlainOpts, CoreScope)

NextInputs ==
  \/ \E meta \in WildOfferMetas : OfferOp("gold", meta)
  \/ \E type \in ActionTypes, meta \in WildActionMetas : ActionOp(type, meta)
  \/ \E dt \in 0..MaxDt : TickOp(dt)

SpecInputs == InitInputs /\ [][NextInputs]_vars

\* ------------------------------------------------------------------------
\* Mood shifts: a default deity observed by one moodShift listener
\* ------------------------------------------------------------------------

ShiftScope ==
  [maxEntries |-> MaxEntries, maxTick |-> MaxTick, maxDt |-> MaxDt,
   maxListeners |-> MaxListeners - 1]

InitShift == Start(PlainOpts, ShiftScope)

NextShift ==
  \/ OnOp("moodShift", "log")
  \/ \E meta \in OfferMetas : OfferOp("gold", meta)
  \/ PrayOp
  \/ DesecrateOp("altar")
  \/ \E dt \in 0..MaxDt : TickOp(dt)

SpecShift == InitShift /\ [][NextShift]_vars

\* ------------------------------------------------------------------------
\* Threshold events: thresholds set close to the starting mood, so that the
\* conditions of wrath, demand and omen come and go
\* ------------------------------------------------------------------------

LevelOpts ==
  [DefaultOpts EXCEPT
     !.name = "Sibyl",
     !.thresholds = [wrath |-> 1600, demand |-> 2000, omen |-> 1500]]

LevelScope ==
  [maxEntries |-> MaxEntries, maxTick |-> MaxTick, maxDt |-> MaxDt,
   maxListeners |-> MaxListeners + 1]

InitLevels == Start(LevelOpts, LevelScope)

NextLevels ==
  \/ \E event \in {"wrath", "demand", "omen"} :
       Registrations(deity, event, "log") = 0 /\ OnOp(event, "log")
  \/ OfferOp("gold", NoMeta)
  \/ DesecrateOp("altar")
  \/ \E dt \in 0..MaxDt : TickOp(dt)

SpecLevels == InitLevels /\ [][NextLevels]_vars

\* ------------------------------------------------------------------------
\* Prayer: runs of interactions of a default deity, followed by one tick
\* ------------------------------------------------------------------------

PrayerScope ==
  [maxEntries |-> MaxEntries + 3, maxTick |-> MaxTick - 1, maxDt |-> MaxDt - 1,
   maxListeners |-> 0]

InitPrayer == Start(PlainOpts, PrayerScope)

NextPrayer ==
  \/ OfferOp("gold", NoMeta)
  \/ PrayOp
  \/ DesecrateOp("altar")
  \/ \E dt \in 0..MaxDt : TickOp(dt)

SpecPrayer == InitPrayer /\ [][NextPrayer]_vars

\* ------------------------------------------------------------------------
\* Direct use of the Ledger over long spans of time
\* ------------------------------------------------------------------------

\* the furthest tick explored
MaxAge == 1290

\* the arguments of advanceTick explored
AdvanceSteps == {215, 430}

LedgerScope ==
  [maxEntries |-> MaxEntries - 1, maxTick |-> MaxAge, maxDt |-> 0, maxListeners |-> 0]

\* a ledger whose entries halve every tick, and one whose entries halve every
\* second tick
InitLedger ==
  \E h \in {1, 2} : Start([PlainOpts EXCEPT !.decayHalfLife = h], LedgerScope)

\* deity.ledger.record(type)
LedgerRecordOp(type) ==
  /\ Len(deity.ledger.entries) < scope.maxEntries
  /\ deity' = [deity EXCEPT !.ledger = LedgerRecord(@, type, NoMeta)]
  /\ lastOp' = [op |-> "record", type |-> type]
  /\ ret' = "undefined"
  /\ threw' = FALSE
  /\ emitted' = <<>>
  /\ seen' = NothingSeen
  /\ UNCHANGED <<opts, scope, handles>>

\* deity.ledger.advanceTick(n)
LedgerAdvanceOp(n) ==
  /\ deity.ledger.tick + n <= scope.maxTick
  /\ deity.ledger.tick + n >= 0 - scope.maxTick
  /\ deity' = [deity EXCEPT !.ledger = AdvanceTick(@, n)]
  /\ lastOp' = [op |-> "advanceTick", n |-> n]
  /\ ret' = "undefined"
  /\ threw' = FALSE
  /\ emitted' = <<>>
  /\ seen' = NothingSeen
  /\ UNCHANGED <<opts, scope, handles>>

\* deity.ledger.ofType(type)
LedgerOfTypeOp(type) ==
  /\ ret' = OfTypeAsDouble(deity.ledger, type)
  /\ lastOp' = [op |-> "ofType", type |-> type]
  /\ threw' = FALSE
  /\ emitted' = <<>>
  /\ seen' = NothingSeen
  /\ UNCHANGED <<deity, opts, scope, handles>>

NextLedger ==
  \/ LedgerRecordOp("offer")
  \/ \E n \in AdvanceSteps : LedgerAdvanceOp(n)
  \/ LedgerOfTypeOp("offer")

SpecLedger == InitLedger /\ [][NextLedger]_vars

\* ------------------------------------------------------------------------
\* Direct use of the Ledger: every integer argument, short spans of time
\* ------------------------------------------------------------------------

LedgerCallsScope ==
  [maxEntries |-> MaxEntries - 1, maxTick |-> MaxTick, maxDt |-> 0, maxListeners |-> 0]

InitLedgerCalls == Start(PlainOpts, LedgerCallsScope)

\* deity.ledger.recent(n)
LedgerRecentOp(n) ==
  /\ ret' = Recent(deity.ledger, n)
  /\ lastOp' = [op |-> "recent", n |-> n]
  /\ threw' = FALSE
  /\ emitted' = <<>>
  /\ seen' = NothingSeen
  /\ UNCHANGED <<deity, opts, scope, handles>>

\* deity.ledger.ticksSinceLast(type)
LedgerTicksSinceLastOp(type) ==
  /\ ret' = TicksSinceLast(deity.ledger, type)
  /\ lastOp' = [op |-> "ticksSinceLast", type |-> type]
  /\ threw' = FALSE
  /\ emitted' = <<>>
  /\ seen' = NothingSeen
  /\ UNCHANGED <<deity, opts, scope, handles>>

NextLedgerCalls ==
  \/ LedgerRecordOp("offer")
  \/ \E n \in -1..1 : LedgerAdvanceOp(n)
  \/ \E n \in 0..MaxEntries : LedgerRecentOp(n)
  \/ LedgerTicksSinceLastOp("offer")

SpecLedgerCalls == InitLedgerCalls /\ [][NextLedgerCalls]_vars

\* ------------------------------------------------------------------------
\* Repeated registration of one callback
\* ------------------------------------------------------------------------

TwiceScope ==
  [maxEntries |-> MaxEntries - 1, maxTick |-> MaxTick, maxDt |-> MaxDt - 1,
   maxListeners |-> MaxListeners + 1]

InitTwice == Start(WrathOpts, TwiceScope)

NextTwice ==
  \/ \E fn \in {"log", "boom"} : OnOp("wrath", fn)
  \/ UnsubscribeOp
  \/ \E dt \in 0..MaxDt : TickOp(dt)

SpecTwice == InitTwice /\ [][NextTwice]_vars

\* ------------------------------------------------------------------------
\* The order of events: a serene deity with low thresholds, observed on any
\* of its events, over a span of time long enough for a miracle
\* ------------------------------------------------------------------------

OrderOpts ==
  [DefaultOpts EXCEPT
     !.name = "Pax",
     !.personality = [serenity |-> 4500, wrath |-> 500, hunger |-> 1000, chaos |-> 4000],
     !.thresholds = [wrath |-> 100, demand |-> 500, omen |-> 500, miracle |-> 2000],
     !.neglectThreshold = 50]

\* tick(11) brings a new deity to the eve of tick 12, the first tick at which
\* _miracleChance is true; listeners are registered before time starts
OrderScope ==
  [maxEntries |-> MaxEntries - 2, maxTick |-> 10 + MaxTick, maxDt |-> 11,
   maxListeners |-> MaxListeners]

InitOrder == Start(OrderOpts, OrderScope)

NextOrder ==
  \/ \E event \in EventSet :
       /\ deity.tick = 0
       /\ Registrations(deity, event, "log") = 0
       /\ OnOp(event, "log")
  \/ OfferOp("gold", NoMeta)
  \/ DesecrateOp("altar")
  \/ \E dt \in {1, 11} : TickOp(dt)

SpecOrder == InitOrder /\ [][NextOrder]_vars

\* ------------------------------------------------------------------------
\* Neglect after surprises: an impatient deity, interactions and time
\* ------------------------------------------------------------------------

NeglectScope ==
  [maxEntries |-> MaxEntries + 1, maxTick |-> MaxTick, maxDt |-> MaxDt - 1,
   maxListeners |-> 0]

InitNeglect == Start(WrathOpts, NeglectScope)

NextNeglect ==
  \/ OfferOp("gold", NoMeta)
  \/ PrayOp
  \/ DesecrateOp("altar")
  \/ \E dt \in 0..MaxDt : TickOp(dt)

SpecNeglect == InitNeglect /\ [][NextNeglect]_vars

\* ------------------------------------------------------------------------
\* Direct use of the Supplicant: runs of two kinds of interaction, for
\* windows of one, two and ten interactions
\* ------------------------------------------------------------------------

SupplicantScope ==
  [maxEntries |-> MaxRun - 1, maxTick |-> 0, maxDt |-> 0, maxListeners |-> 0]

InitSupplicant ==
  \E n \in {1, 2, DEFAULT_SEQUENCE_LENGTH} :
    Start([PlainOpts EXCEPT !.sequenceLength = n], SupplicantScope)

\* every type recorded so far by the supplicant calls, oldest first
Past == IF "past" \in DOMAIN lastOp THEN lastOp.past ELSE <<>>

\* deity.supplicant.record(type)
SupplicantRecordOp(type) ==
  LET r == SupplicantRecord(deity.supplicant, type)
  IN  /\ Len(Past) < scope.maxEntries
      /\ deity' = [deity EXCEPT !.supplicant = r.state]
      /\ ret' = r.result
      /\ lastOp' = [op |-> "observe", type |-> type, past |-> Append(Past, type)]
      /\ threw' = FALSE
      /\ emitted' = <<>>
      /\ seen' = NothingSeen
      /\ UNCHANGED <<opts, scope, handles>>

\* deity.supplicant.omniscient
SupplicantOmniscientOp ==
  /\ ret' = Omniscient(deity.supplicant)
  /\ lastOp' = [op |-> "omniscient", past |-> Past]
  /\ threw' = FALSE
  /\ emitted' = <<>>
  /\ seen' = NothingSeen
  /\ UNCHANGED <<deity, opts, scope, handles>>

NextSupplicant ==
  \/ \E type \in {"offer", "pray"} : SupplicantRecordOp(type)
  \/ SupplicantOmniscientOp

SpecSupplicant == InitSupplicant /\ [][NextSupplicant]_vars

\* ---------------------------------------------------------------------------
\* Callbacks that unsubscribe during an emission: wrath listeners that
\* observe ("log", "log2"), remove another listener ("drop") or remove
\* themselves ("once"), each registered at most once, and ticks of a deity
\* whose wrath event fires.
ReentrantScope ==
  [maxEntries |-> MaxEntries - 1, maxTick |-> MaxTick, maxDt |-> MaxDt,
   maxListeners |-> MaxListeners + 1]

InitReentrant == Start(WrathOpts, ReentrantScope)

NextReentrant ==
  \/ \E fn \in {"log", "log2", "drop", "once"} :
       Registrations(deity, "wrath", fn) = 0 /\ OnOp("wrath", fn)
  \/ \E dt \in 1..MaxDt : TickOp(dt)

SpecReentrant == InitReentrant /\ [][NextReentrant]_vars

\* ------------------------------------------------------------------------
\* Properties
\* ------------------------------------------------------------------------

\* the rounding allowance of a normalized vector: each of its components is
\* rounded to the nearest unit, half a unit at most per dimension
Tol == Len(DIMENSIONS) \div 2

Simplex(vec) ==
  /\ \A d \in Dims : vec[d] >= 0
  /\ Abs(VecSum(vec) - SCALE) <= Tol

UniformVec == [d \in Dims |-> RDiv(SCALE, Len(DIMENSIONS))]

AllClampedZero(vec) == \A d \in Dims : Max(0, vec[d]) = 0

Entries == deity.ledger.entries

\* C1: in every reachable state the six dimensions of the current mood vector
\* are each >= 0 and sum to 1 within the rounding allowance, whatever the
\* personality the deity was constructed with; and when every clamped
\* component of the vector given to normalize is 0 (a personality with no
\* positive component) the result is the uniform vector.
C1_Simplex ==
  /\ Simplex(deity.mood.vector)
  /\ Simplex(deity.mood.personality)
  /\ AllClampedZero(FromPartial(opts.personality))
       => deity.mood.personality = UniformVec

\* a deity built from a personality without positive components has been
\* ticked: its baseline is uniform and its vector has moved away from it
C1_Witness ==
  /\ AllClampedZero(FromPartial(opts.personality))
  /\ lastOp.op = "tick"
  /\ Len(Entries) > 0
  /\ deity.mood.personality = UniformVec
  /\ deity.mood.vector # UniformVec

\* C2: a query() or _queryPrecise() call changes nothing of the deity (ledger,
\* mood, supplicant, tick counter, listeners), and returns what the earlier
\* calls of the same precision mode returned in the same run of queries;
\* Mood.query itself leaves the mood as it was in either mode.  (C3 adds
\* that no operation but tick() changes what a query returns, so every call
\* between two ticks returns the same.)
C2_QueryPure ==
  [][lastOp'.op = "query" =>
       /\ deity' = deity
       /\ \A p \in BOOLEAN : MoodQuery(deity.mood, p).mood = deity.mood
       /\ \A i \in 1..Len(seen'.fuzzy) : seen'.fuzzy[i] = seen'.fuzzy[1]
       /\ \A i \in 1..Len(seen'.precise) : seen'.precise[i] = seen'.precise[1]
       /\ lastOp'.precise => ret' = seen'.precise[1]
       /\ ~lastOp'.precise => ret' = seen'.fuzzy[1]]_vars

\* query() was called twice and _queryPrecise() once in a row, on a deity
\* with a history, and the fuzzy read differs from the vector
C2_Witness ==
  /\ lastOp.op = "query"
  /\ Len(seen.fuzzy) = 2
  /\ Len(seen.precise) >= 1
  /\ deity.tick > 0
  /\ Len(Entries) > 0
  /\ seen.fuzzy[2].mood # deity.mood.vector
  /\ seen.fuzzy[2].tick = deity.tick

\* C3: no operation other than tick() changes the current mood vector or
\* lastResolvedTick (offer, pray, desecrate, action, on, unsubscribe, query,
\* serialize), so query() returns
\* the same mood before and after it; a tick() of at least one step resolves
\* the mood for the tick it reaches.
C3_FrozenBetweenTicks ==
  [][/\ lastOp'.op # "tick" =>
          /\ deity'.mood.vector = deity.mood.vector
          /\ deity'.mood.lastResolvedTick = deity.mood.lastResolvedTick
          /\ Query(deity').value = Query(deity).value
          /\ QueryPrecise(deity').value = QueryPrecise(deity).value
     /\ (lastOp'.op = "tick" /\ lastOp'.dt >= 1) =>
          deity'.mood.lastResolvedTick = deity'.tick]_vars

\* an interaction has just been recorded within an already resolved tick:
\* resolving now would move the vector, yet the vector is the resolved one
C3_Witness ==
  /\ lastOp.op \in {"offer", "pray", "desecrate", "action"}
  /\ deity.tick > 0
  /\ deity.mood.lastResolvedTick = deity.tick
  /\ Entries[Len(Entries)].tick = deity.tick
  /\ deity.mood.vector # deity.mood.personality
  /\ Blend(deity.mood, deity.ledger) # deity.mood.vector

Interactions == {"offer", "pray", "desecrate"}

\* the ticks elapsed at tick t since the latest offer, pray or desecrate
\* entry, INF when there is none
SinceInteraction(entries, t) ==
  LET idx == {i \in 1..Len(entries) : entries[i].type \in Interactions}
  IN  IF idx = {} THEN INF
      ELSE t - entries[CHOOSE i \in idx : \A j \in idx : j <= i].tick

\* C4: a tick step advances the tick counter by one, then appends exactly one
\* entry of kind neglect, marked synthetic and stamped with the new tick, if
\* and only if the ticks since the latest offer, pray or desecrate entry
\* exceed neglectThreshold strictly (always, when there is no such entry),
\* and appends nothing otherwise; the mood is then resolved from the ledger
\* that already holds that entry.
C4_Neglect ==
  [][(lastOp'.op = "tick" /\ lastOp'.dt = 1) =>
       LET t   == deity.tick + 1
           due == SinceInteraction(Entries, t) > deity.neglectThreshold
           expected ==
             IF due
             THEN Append(Entries, [type |-> "neglect", tick |-> t,
                                   meta |-> [synthetic |-> TRUE]])
             ELSE Entries
       IN  /\ deity'.tick = t
           /\ deity'.ledger.tick = t
           /\ deity'.ledger.entries = expected
           /\ deity'.mood.lastResolvedTick = t
           /\ deity'.mood.vector =
                Blend(deity.mood, [deity.ledger EXCEPT !.tick = t, !.entries = expected])
           /\ (\A i \in 1..Len(Entries) : Entries[i].type \notin Interactions) => due]_vars

\* a single tick step has just recorded neglect for the tick it reached, on
\* a deity that had been interacted with, and resolved the mood for that tick
C4_Witness ==
  /\ lastOp.op = "tick"
  /\ lastOp.dt = 1
  /\ Len(Entries) >= 2
  /\ Entries[Len(Entries)] =
       [type |-> "neglect", tick |-> deity.tick, meta |-> [synthetic |-> TRUE]]
  /\ \E i \in 1..Len(Entries) : Entries[i].type \in Interactions
  /\ deity.mood.lastResolvedTick = deity.tick

\* a single tick step has appended nothing: the latest interaction is recent
C4_WitnessQuiet ==
  /\ lastOp.op = "tick"
  /\ lastOp.dt = 1
  /\ Len(Entries) >= 1
  /\ Entries[Len(Entries)].tick < deity.tick
  /\ Entries[Len(Entries)].type \in Interactions

RECURSIVE TickOneByOne(_, _)
\* n consecutive tick(1) calls: the deity reached and the callbacks invoked
TickOneByOne(st, n) ==
  IF n = 0 THEN st
  ELSE LET r == Tick(st.d, 1)
       IN  TickOneByOne([d |-> r.d, log |-> st.log \o r.log,
                         thrown |-> st.thrown \/ r.thrown], n - 1)

\* C5: tick(n) leaves the deity (ledger, mood, supplicant, tick counter,
\* prevDominant, listeners) and the sequence of callbacks invoked exactly as
\* n consecutive tick(1) calls do, the tick counter n higher; tick(0)
\* changes nothing and invokes nothing.
C5_TickN ==
  [][lastOp'.op = "tick" =>
       LET n == lastOp'.dt
           r == TickOneByOne([d |-> deity, log |-> <<>>, thrown |-> FALSE], n)
       IN  /\ deity' = r.d
           /\ emitted' = r.log
           /\ threw' = r.thrown
           /\ deity'.tick = deity.tick + n
           /\ n = 0 => (deity' = deity /\ emitted' = <<>>)]_vars

\* tick(2) has just run: neglect was recorded for the intermediate tick and
\* for the final one, and callbacks were invoked for events of both ticks
C5_Witness ==
  /\ lastOp.op = "tick"
  /\ lastOp.dt = 2
  /\ \E i \in 1..Len(Entries) :
       Entries[i].type = "neglect" /\ Entries[i].tick = deity.tick - 1
  /\ \E i \in 1..Len(Entries) :
       Entries[i].type = "neglect" /\ Entries[i].tick = deity.tick
  /\ \E i, j \in 1..Len(emitted) :
       /\ i < j
       /\ emitted[i].data.tick = deity.tick - 1
       /\ emitted[j].data.tick = deity.tick
       /\ emitted[i].event = "wrath"
       /\ emitted[j].event = "utterance"

\* C6: Mood.resolve(ledger, t) called with the t of the preceding resolve
\* changes nothing of the mood (vector, lastResolvedTick, personality),
\* whatever entries the ledger has received since; called with another t it
\* sets lastResolvedTick to t.
C6_ResolveIdempotent ==
  [][lastOp'.op = "resolve" =>
       /\ lastOp'.t = deity.mood.lastResolvedTick => deity'.mood = deity.mood
       /\ deity'.mood.lastResolvedTick = lastOp'.t
       /\ deity'.ledger = deity.ledger]_vars

\* resolve has just been called again for a tick already resolved, after an
\* interaction recorded within that tick which a fresh blend would reflect
C6_Witness ==
  /\ lastOp.op = "resolve"
  /\ lastOp.t = lastOp.prev
  /\ deity.mood.lastResolvedTick = deity.tick
  /\ deity.tick >= 1
  /\ Entries[Len(Entries)].type \in Interactions
  /\ Entries[Len(Entries)].tick = deity.tick
  /\ Blend(deity.mood, deity.ledger) # deity.mood.vector

\* what the round trip carries over apart from the personality baseline
SameButPersonality(a, b) ==
  /\ a.name = b.name
  /\ a.alignment = b.alignment
  /\ a.favorMap = b.favorMap
  /\ a.ledger = b.ledger
  /\ a.mood.vector = b.mood.vector
  /\ a.mood.hysteresis = b.mood.hysteresis
  /\ a.mood.attractorStrength = b.mood.attractorStrength
  /\ a.mood.lastResolvedTick = b.mood.lastResolvedTick
  /\ a.supplicant = b.supplicant
  /\ a.tick = b.tick
  /\ a.thresholds = b.thresholds
  /\ a.neglectThreshold = b.neglectThreshold
  /\ a.prevDominant = b.prevDominant

\* C7: Deity.deserialize(x.serialize()) has the same ledger, mood state
\* (personality, vector, hysteresis, attractorStrength, lastResolvedTick),
\* supplicant state, tick, thresholds, neglectThreshold and prevDominant as
\* x; query() on both returns the same, and the same ticks applied to both
\* keep their moods equal.
C7_RoundTrip ==
  [][lastOp'.op = "roundtrip" =>
       /\ SameButPersonality(deity', deity)
       /\ deity'.mood.personality = deity.mood.personality
       /\ Query(deity').value = Query(deity).value
       /\ \A dt \in 1..MaxDt : Tick(deity', dt).d.mood = Tick(deity, dt).d.mood]_vars

\* the part of C7 the code keeps: everything but the personality baseline is
\* carried over exactly, and query() at the same tick returns the same
C7_RoundTripRest ==
  [][lastOp'.op = "roundtrip" =>
       /\ SameButPersonality(deity', deity)
       /\ Simplex(deity'.mood.personality)
       /\ \A d \in Dims :
            Abs(deity'.mood.personality[d] - deity.mood.personality[d]) <= 1
       /\ Query(deity').value = Query(deity).value]_vars

\* C8: every operation leaves the ledger's entry sequence as it was or
\* extends it at its end: each entry present before is present after at the
\* same position with the same type, tick and meta, also across a
\* serialize/deserialize round trip; the half-life never changes and the
\* ledger's tick never goes back.
C8_AppendOnly ==
  [][/\ Len(Entries') >= Len(Entries)
     /\ \A i \in 1..Len(Entries) : Entries'[i] = Entries[i]
     /\ deity'.ledger.halfLife = deity.ledger.halfLife
     /\ deity'.ledger.tick >= deity.ledger.tick]_vars

\* a tick has appended a neglect entry behind entries of two earlier ticks
C8_Witness ==
  /\ lastOp.op = "tick"
  /\ Len(Entries) >= 3
  /\ Entries[1].tick < Entries[2].tick
  /\ Entries[2].tick < Entries[Len(Entries)].tick
  /\ Entries[Len(Entries)].type = "neglect"
  /\ Entries[1].type \in Interactions

\* the ledger without its synthetic offers
WithoutSyntheticOffers(l) ==
  [l EXCEPT !.entries =
     SelectSeq(@, LAMBDA e : ~(e.type = "offer" /\ Has(e.meta, "synthetic")))]

\* C9: an offer(), pray() or desecrate() call appends one entry of its kind,
\* not synthetic, followed by at most one synthetic entry: the offer
\* {offeringType: '_surprise_bonus', synthetic: true} when the prediction
\* made before the call names another kind; otherwise the neglect
\* {synthetic: true, reason: 'predictability'} when, the call counted, at
\* least 10 interactions were recorded and more than 85% were predicted;
\* nothing when there was no prior prediction.  action() appends its one
\* entry and nothing else.  Synthetic offers add nothing to the offering
\* value sum of the impulse.
C9_Injection ==
  [][LET op    == lastOp'.op
         pred  == deity.supplicant.lastPrediction
         added == SubSeq(Entries', Len(Entries) + 1, Len(Entries'))
         n     == Len(added)
         bonus == [type |-> "offer", tick |-> deity.tick,
                   meta |-> [offeringType |-> "_surprise_bonus", synthetic |-> TRUE]]
         bored == [type |-> "neglect", tick |-> deity.tick,
                   meta |-> [synthetic |-> TRUE, reason |-> "predictability"]]
         predictable ==
           /\ deity'.supplicant.total >= 10
           /\ deity'.supplicant.correct * 100 > 85 * deity'.supplicant.total
     IN  /\ SubSeq(Entries', 1, Len(Entries)) = Entries
         /\ op \in Interactions =>
              /\ n >= 1
              /\ added[1].type = op
              /\ added[1].tick = deity.tick
              /\ ~Has(added[1].meta, "synthetic")
              /\ IF pred = "null" THEN n = 1
                 ELSE IF pred # op THEN n = 2 /\ added[2] = bonus
                 ELSE IF predictable THEN n = 2 /\ added[2] = bored
                 ELSE n = 1
         /\ op = "action" =>
              /\ n = 1
              /\ added[1].type = "action"
              /\ ~Has(added[1].meta, "synthetic")
         /\ OfferImpulse(deity'.ledger) =
              OfferImpulse(WithoutSyntheticOffers(deity'.ledger))]_vars

\* the tenth prayer in a row has just been answered with boredom, on a
\* ledger that holds no surprise bonus
C9_Witness ==
  /\ lastOp.op = "pray"
  /\ Len(Entries) >= 2
  /\ Entries[Len(Entries)].type = "neglect"
  /\ Has(Entries[Len(Entries)].meta, "reason")
  /\ Entries[Len(Entries) - 1].type = "pray"
  /\ deity.supplicant.total >= 10

\* an offering that broke a run of prayers has just earned a surprise bonus
C9_WitnessSurprise ==
  /\ lastOp.op = "offer"
  /\ Len(Entries) >= 3
  /\ Entries[Len(Entries)].meta = [offeringType |-> "_surprise_bonus", synthetic |-> TRUE]
  /\ Entries[Len(Entries) - 1].type = "offer"
  /\ Entries[1].type = "pray"

\* the deity with every throwing listener replaced by one that returns
Calmed(d) ==
  [d EXCEPT !.listeners =
     [e \in DOMAIN @ |-> [i \in 1..Len(@[e]) |-> IF @[e][i] = "boom" THEN "log" ELSE @[e][i]]]]

\* the log of callbacks invoked, with the throwing listener renamed alike
CalmedLog(log) ==
  [i \in 1..Len(log) |-> [log[i] EXCEPT !.fn = IF @ = "boom" THEN "log" ELSE @]]

\* C10: a tick() during which listeners throw returns normally; the
\* listeners invoked, their order and their payloads are those of the same
\* tick with listeners that do not throw (so the listeners registered after
\* a throwing one and the later events of the tick are all served); and
\* the ledger, mood, supplicant, tick counter and prevDominant reached are
\* the same.
C10_CallbackIsolation ==
  [][lastOp'.op = "tick" =>
       LET calm == Tick(Calmed(deity), lastOp'.dt)
       IN  /\ ~threw'
           /\ ~calm.thrown
           /\ CalmedLog(emitted') = calm.log
           /\ deity'.ledger = calm.d.ledger
           /\ deity'.mood = calm.d.mood
           /\ deity'.supplicant = calm.d.supplicant
           /\ deity'.tick = calm.d.tick
           /\ deity'.tick = deity.tick + lastOp'.dt
           /\ deity'.prevDominant = calm.d.prevDominant
           /\ deity'.listeners = deity.listeners]_vars

\* a tick has just returned normally although a wrath listener threw: the
\* wrath listener registered after it and the utterance listener of the
\* same tick were invoked, and prevDominant was updated
C10_Witness ==
  /\ lastOp.op = "tick"
  /\ ~threw
  /\ deity.prevDominant = "wrath"
  /\ \E i, j, k \in 1..Len(emitted) :
       /\ i < j
       /\ j < k
       /\ emitted[i].fn = "boom"
       /\ emitted[i].event = "wrath"
       /\ emitted[j].fn = "log"
       /\ emitted[j].event = "wrath"
       /\ emitted[j].data = emitted[i].data
       /\ emitted[k].event = "utterance"
       /\ emitted[k].data.tick = emitted[i].data.tick

\* C11: on(event, fn) with an event outside moodShift, utterance, demand,
\* omen, miracle, wrath throws, returns no unsubscribe function, and leaves
\* the listener registry and the rest of the deity as they were.
C11_UnknownEvent ==
  [][(lastOp'.op = "on" /\ lastOp'.event \notin EventSet) =>
       /\ threw'
       /\ ret' = "undefined"
       /\ deity' = deity
       /\ DOMAIN deity'.listeners = EventSet
       /\ handles' = handles]_vars

\* a subscription to an unknown event has just been refused on a deity that
\* has listeners and a history
C11_Witness ==
  /\ lastOp.op = "on"
  /\ lastOp.event \notin EventSet
  /\ threw
  /\ ListenerCount(deity) > 0
  /\ deity.tick > 0
  /\ Len(Entries) > 0

\* C12: calling the function on(event, fn) returned removes fn from the
\* listeners of that event and leaves the other listeners of the event in
\* their order, the listeners of the other events and the rest of the deity
\* as they were; an emission invokes only functions registered for its
\* event when the tick starts, and nothing is emitted outside tick(): so fn
\* is not invoked by an emission of the event that starts after the call
\* (unless on(event, fn) registers it anew).
C12_Unsubscribe ==
  [][/\ lastOp'.op = "unsubscribe" =>
          LET e == lastOp'.event
              f == lastOp'.fn
          IN  /\ Registrations(deity', e, f) = 0
              /\ deity'.listeners[e] = SelectSeq(deity.listeners[e], LAMBDA g : g # f)
              /\ \A o \in EventSet \ {e} : deity'.listeners[o] = deity.listeners[o]
              /\ [deity' EXCEPT !.listeners = deity.listeners] = deity
     /\ lastOp'.op = "tick" =>
          \A i \in 1..Len(emitted') :
             Registrations(deity, emitted'[i].event, emitted'[i].fn) > 0
     /\ lastOp'.op # "tick" => emitted' = <<>>]_vars

\* a tick has just fired wrath after the throwing wrath listener was
\* unsubscribed: the remaining wrath listener and the utterance listener
\* were invoked, the unsubscribed one was not
C12_Witness ==
  /\ lastOp.op = "tick"
  /\ <<"wrath", "boom">> \in handles
  /\ Registrations(deity, "wrath", "boom") = 0
  /\ Registrations(deity, "wrath", "log") = 1
  /\ Registrations(deity, "utterance", "boom") = 1
  /\ \E i \in 1..Len(emitted) : emitted[i].event = "wrath" /\ emitted[i].fn = "log"
  /\ \E i \in 1..Len(emitted) : emitted[i].event = "utterance" /\ emitted[i].fn = "boom"
  /\ \A i \in 1..Len(emitted) : ~(emitted[i].event = "wrath" /\ emitted[i].fn = "boom")

InUnit(x) == 0 <= x /\ x <= SCALE

\* C13: whatever meta.value is passed to offer() and whatever meta.magnitude
\* to action(), the value of every recorded offer entry and the magnitude of
\* every recorded action entry, which the impulse computation reads, lie in
\* [0,1].
C13_Clamped ==
  \A i \in 1..Len(Entries) :
     /\ (Entries[i].type = "offer" /\ Has(Entries[i].meta, "value"))
          => InUnit(Entries[i].meta.value)
     /\ Entries[i].type = "action" => InUnit(Entries[i].meta.magnitude)

\* the part of C13 the code keeps: the effective value of an offer, which is
\* what the impulse reads for offers, is the clamped value times 1, 1.5 or
\* -0.5
C13_EffectiveValueClamped ==
  \A i \in 1..Len(Entries) :
     (Entries[i].type = "offer" /\ Has(Entries[i].meta, "effectiveValue"))
       => LET v == Clamp01(Entries[i].meta.value)
          IN  Entries[i].meta.effectiveValue
                \in {v, Coef(v, 15, 10), Coef(v, -5, 10)}

\* the moodShift callbacks among those invoked
Shifts(log) == SelectSeq(log, LAMBDA m : m.event = "moodShift")

\* what a tick step must emit as moodShift when the dominant dimension
\* was before and is after
ShiftEmitted(log, before, after, tick) ==
  IF before # after
  THEN /\ Len(Shifts(log)) = 1
       /\ Shifts(log)[1].data.from = before
       /\ Shifts(log)[1].data.to = after
       /\ Shifts(log)[1].data.tick = tick
  ELSE Len(Shifts(log)) = 0

\* C14: a tick step invokes the moodShift listener, with from = the
\* dominant dimension before the step, to = the dominant dimension after
\* its resolution and tick = the new tick, if and only if the two differ;
\* also on the first tick after construction.
C14_MoodShift ==
  [][(lastOp'.op = "tick" /\ lastOp'.dt = 1
        /\ Registrations(deity, "moodShift", "log") = 1) =>
       ShiftEmitted(emitted', Dominant(deity.mood).dimension,
                    Dominant(deity'.mood).dimension, deity'.tick)]_vars

\* the part of C14 the code keeps: from the second tick on (prevDominant
\* set), moodShift is emitted exactly when the dominant dimension changes,
\* and prevDominant is the dominant dimension between ticks
C14_MoodShiftLater ==
  [][(lastOp'.op = "tick" /\ lastOp'.dt = 1
        /\ Registrations(deity, "moodShift", "log") = 1) =>
       /\ deity.prevDominant # "null" =>
            /\ deity.prevDominant = Dominant(deity.mood).dimension
            /\ ShiftEmitted(emitted', Dominant(deity.mood).dimension,
                            Dominant(deity'.mood).dimension, deity'.tick)
       /\ deity.prevDominant = "null" => Len(Shifts(emitted')) = 0
       /\ deity'.prevDominant = Dominant(deity'.mood).dimension]_vars

\* a moodShift has been delivered
C14_ShiftSeen ==
  /\ lastOp.op = "tick"
  /\ Len(Shifts(emitted)) = 1

\* the callbacks invoked for one event
Of(log, event) == SelectSeq(log, LAMBDA m : m.event = event)

\* every listener of the event invoked once, in order, with the intensity
\* and the tick, when the level is above the threshold; none otherwise
LevelEmitted(log, d, event, level, threshold) ==
  IF level > threshold
  THEN /\ Len(Of(log, event)) = Len(d.listeners[event])
       /\ \A i \in 1..Len(d.listeners[event]) :
            Of(log, event)[i] = [event |-> event, fn |-> d.listeners[event][i],
                                 data |-> [intensity |-> level, tick |-> d.tick]]
  ELSE Len(Of(log, event)) = 0

\* C15: a tick step invokes each wrath listener exactly once if the precise
\* wrath after the step's resolution is strictly above thresholds.wrath and
\* not at all otherwise; likewise demand for hunger above thresholds.demand
\* and omen for chaos above thresholds.omen; the event comes again on every
\* tick on which its condition holds, and no operation other than tick()
\* invokes a listener.
C15_LevelTriggered ==
  [][/\ (lastOp'.op = "tick" /\ lastOp'.dt = 1) =>
          LET v == deity'.mood.vector
              t == deity'.thresholds
          IN  /\ LevelEmitted(emitted', deity', "wrath", v.wrath, t.wrath)
              /\ LevelEmitted(emitted', deity', "demand", v.hunger, t.demand)
              /\ LevelEmitted(emitted', deity', "omen", v.chaos, t.omen)
     /\ lastOp'.op # "tick" => emitted' = <<>>]_vars

\* a tick step (not the first one) has just fired demand, once, and neither
\* wrath nor omen, all three having a listener
C15_Witness ==
  /\ lastOp.op = "tick"
  /\ lastOp.dt = 1
  /\ deity.tick >= 2
  /\ \A e \in {"wrath", "demand", "omen"} : Len(deity.listeners[e]) = 1
  /\ Len(Of(emitted, "demand")) = 1
  /\ Len(Of(emitted, "omen")) = 0
  /\ Len(Of(emitted, "wrath")) = 0
  /\ deity.mood.vector.hunger > deity.thresholds.demand
  /\ deity.mood.vector.wrath <= deity.thresholds.wrath

\* a tick step has just fired wrath
C15_WitnessWrath ==
  /\ lastOp.op = "tick"
  /\ lastOp.dt = 1
  /\ Len(Of(emitted, "wrath")) = 1
  /\ Len(Of(emitted, "omen")) = 1

\* C16: a tick that follows three or more pray() calls in a row resolves the
\* mood against a ledger whose prayer streak exceeds 2, whatever came before
\* the prayers
C16_PrayerSpam ==
  [][(/\ lastOp.op = "pray" /\ lastOp.run >= 3
      /\ lastOp'.op = "tick" /\ lastOp'.dt = 1)
       => CurrentStreak(deity'.ledger, "pray") > 2]_vars

\* the same, for prayers made to a deity that has had no interaction before them
C16_PrayerSpamFresh ==
  [][(/\ lastOp.op = "pray" /\ lastOp.run >= 3
      /\ lastOp'.op = "tick" /\ lastOp'.dt = 1
      /\ \A i \in 1..Len(deity.supplicant.history) : deity.supplicant.history[i] = "pray")
       => CurrentStreak(deity'.ledger, "pray") > 2]_vars

\* C17: the object returned by query() holds no exact component of the mood
\* vector: the value it reports for the dominant dimension equals a precise
\* component only where the fuzzed read of that component does too
C17_Opacity ==
  (lastOp.op = "query" /\ ~lastOp.precise) =>
    \A dim \in Dims :
      ret.dominant.value = deity.mood.vector[dim] => ret.mood[dim] = deity.mood.vector[dim]

\* the dimension a threshold event reports on
LevelDimension == [wrath |-> "wrath", demand |-> "hunger", omen |-> "chaos"]

\* the same for the data handed to the listeners of wrath, demand and omen by
\* a single tick: the intensity is not the precise component unless the
\* fuzzed read coincides with it
C17_OpacityListeners ==
  (lastOp.op = "tick" /\ lastOp.dt = 1) =>
    \A i \in 1..Len(emitted) :
      emitted[i].event \in DOMAIN LevelDimension =>
        LET dim == LevelDimension[emitted[i].event]
        IN  emitted[i].data.intensity = deity.mood.vector[dim]
              => FuzzyRead(deity.mood)[dim] = deity.mood.vector[dim]

\* what query() does keep from the caller: the vector it returns is the fuzzed
\* one, and differs from the precise vector
C17_FuzzedVector ==
  (lastOp.op = "query" /\ ~lastOp.precise) =>
    /\ ret.mood = FuzzyRead(deity.mood)
    /\ ret.tick = deity.tick

\* the step is an offer(), pray() or desecrate() call the supplicant model
\* had predicted otherwise
SurprisedStep ==
  /\ lastOp'.op \in Interactions
  /\ deity.supplicant.lastPrediction \notin {"null", lastOp'.op}

\* the ledger as the next resolution reads it, one tick later
AtNextTick(l) == AdvanceTick(l, 1)

\* the same history had the last interaction not been a surprise: without the
\* entry the surprise appended
Unsurprised(l) == [l EXCEPT !.entries = SubSeq(@, 1, Len(@) - 1)]

\* C18: after an interaction that surprised the supplicant model, the chaos
\* impulse of the next resolution is larger than the one the same history
\* gives without the surprise
C18_SurpriseChaos ==
  [][SurprisedStep =>
       ComputeImpulse(AtNextTick(deity'.ledger)).chaos
         > ComputeImpulse(AtNextTick(Unsurprised(deity'.ledger))).chaos]_vars

\* what the surprise does change at the next resolution: nothing in the chaos
\* impulse, which comes from desecrations alone
C18_SurpriseLeavesChaos ==
  [][SurprisedStep =>
       LET l == AtNextTick(deity'.ledger)
       IN  /\ Entries'[Len(Entries')].meta = [offeringType |-> "_surprise_bonus", synthetic |-> TRUE]
           /\ ComputeImpulse(l).chaos = ComputeImpulse(Unsurprised(l)).chaos
           /\ ComputeImpulse(l).chaos = DesecrationImpulse(l).chaos]_vars

\* C19: the neglect factor the resolution of a tick computes is the number of
\* ticks since the latest offer, prayer or desecration, the quantity of the
\* tick's neglect check, divided by 20 and capped at 1
C19_NeglectFactor ==
  (lastOp.op = "tick" /\ lastOp.dt >= 1) =>
    NeglectFactor(deity.ledger) = Min(RDiv(SinceInteraction(Entries, deity.tick) * SCALE, 20), SCALE)

\* the factor as computed: from offers and prayers only, within [0, 1], and
\* never below the one the claim describes
C19_NeglectFactorOfferPray ==
  (lastOp.op = "tick" /\ lastOp.dt >= 1) =>
    LET sinceOfferPray == Min(TicksSinceLast(deity.ledger, "offer"),
                              TicksSinceLast(deity.ledger, "pray"))
    IN  /\ NeglectFactor(deity.ledger) = Min(RDiv(sinceOfferPray * SCALE, 20), SCALE)
        /\ NeglectFactor(deity.ledger) \in 0..SCALE
        /\ NeglectFactor(deity.ledger) >= Min(RDiv(SinceInteraction(Entries, deity.tick) * SCALE, 20), SCALE)
        /\ TicksSinceLast(deity.ledger, "desecrate") >= sinceOfferPray
             => NeglectFactor(deity.ledger) = Min(RDiv(SinceInteraction(Entries, deity.tick) * SCALE, 20), SCALE)

\* C20: every weight ofType returns is 0.5^((currentTick - entry.tick) /
\* halfLife): not 0, at most 1, and 1 for an entry born at the current tick
C20_DecayLaw ==
  lastOp.op = "ofType" =>
    \A i \in 1..Len(ret) :
      /\ ~ret[i].weight.zero
      /\ ret[i].weight.age = deity.ledger.tick - ret[i].tick
      /\ ret[i].weight.halfLife = deity.ledger.halfLife
      /\ ret[i].weight.age >= 0
      /\ ret[i].tick = deity.ledger.tick => ret[i].weight.age = 0

\* the law holds for every entry younger than 1075 half-lives, and an older
\* entry weighs exactly 0
C20_DecayLawYoung ==
  lastOp.op = "ofType" =>
    \A i \in 1..Len(ret) :
      LET age == deity.ledger.tick - ret[i].tick
      IN  /\ age >= 0
          /\ ret[i].weight.zero <=> age >= 1075 * deity.ledger.halfLife
          /\ ret[i].weight.age = age
          /\ ret[i].weight.halfLife = deity.ledger.halfLife

\* the weight of an entry never increases as the tick advances: its age in
\* half-lives does not shrink, and a weight of 0 stays 0
C20_Monotone ==
  [][\A i \in 1..Len(Entries) :
       LET before == WeightAsDouble(deity.ledger, Entries[i])
           after  == WeightAsDouble(deity'.ledger, Entries'[i])
       IN  /\ Entries'[i] = Entries[i]
           /\ after.age >= before.age
           /\ after.halfLife = before.halfLife
           /\ before.zero => after.zero]_vars

\* C21: no Ledger operation lowers the ledger's current tick: record and the
\* reads leave it as it is, advanceTick(n) leaves it at least as large, for
\* every integer n
C21_TickMonotone ==
  [][deity'.ledger.tick >= deity.ledger.tick]_vars

\* record and the reads leave the tick unchanged, advanceTick(n) adds n to it:
\* it does not decrease when n >= 0
C21_TickAdvance ==
  [][/\ lastOp'.op = "advanceTick" => deity'.ledger.tick = deity.ledger.tick + lastOp'.n
     /\ lastOp'.op # "advanceTick" => deity'.ledger.tick = deity.ledger.tick
     /\ (lastOp'.op = "advanceTick" /\ lastOp'.n >= 0)
          => deity'.ledger.tick >= deity.ledger.tick]_vars

\* the last Min(n, size) entries, newest first
LastNewestFirst(entries, n) ==
  LET cnt == Min(n, Len(entries))
  IN  [i \in 1..cnt |-> entries[Len(entries) - i + 1]]

\* C22: recent(n) returns the last min(n, size) entries, newest first, for
\* every n >= 0, and leaves the entries as they were
C22_Recent ==
  [][lastOp'.op = "recent" =>
       /\ ret' = LastNewestFirst(Entries, lastOp'.n)
       /\ Entries' = Entries]_vars

\* the same for n >= 1; recent(0) returns every entry, newest first
C22_RecentPositive ==
  [][lastOp'.op = "recent" =>
       /\ lastOp'.n >= 1 => ret' = LastNewestFirst(Entries, lastOp'.n)
       /\ lastOp'.n = 0 => ret' = LastNewestFirst(Entries, Len(Entries))
       /\ Entries' = Entries]_vars

\* C23: the closure returned by on(event, fn) removes every registration of
\* fn for the event, two registrations of the same function included, and
\* keeps the others in order; called when fn is no longer registered, as the
\* closure of the second registration is after the first was called, it
\* changes nothing
C23_ByReference ==
  [][lastOp'.op = "unsubscribe" =>
       LET e == lastOp'.event
           f == lastOp'.fn
       IN  /\ lastOp'.removed = Registrations(deity, e, f)
           /\ Registrations(deity', e, f) = 0
           /\ Len(deity'.listeners[e]) = Len(deity.listeners[e]) - lastOp'.removed
           /\ deity'.listeners[e] = SelectSeq(deity.listeners[e], LAMBDA g : g # f)
           /\ lastOp'.removed = 0 => deity' = deity]_vars

\* one call has just removed two registrations of the same function, and
\* left the other function registered
C23_Witness ==
  /\ lastOp.op = "unsubscribe"
  /\ lastOp.removed = 2
  /\ Registrations(deity, lastOp.event, lastOp.fn) = 0
  /\ Len(deity.listeners[lastOp.event]) = 1

\* the closure has just been called again, with nothing left to remove
C23_WitnessNoOp ==
  /\ lastOp.op = "unsubscribe"
  /\ lastOp.removed = 0
  /\ <<lastOp.event, lastOp.fn>> \in handles
  /\ Len(deity.listeners[lastOp.event]) = 1

\* C24: through the Deity API the entries stay chronological: birth ticks do
\* not decrease along the sequence, none exceeds the ledger's current tick,
\* and ticksSinceLast is not negative for any type
C24_Chronological ==
  /\ \A i, j \in 1..Len(Entries) : i <= j => Entries[i].tick <= Entries[j].tick
  /\ \A i \in 1..Len(Entries) : Entries[i].tick <= deity.ledger.tick
  /\ \A type \in Types : TicksSinceLast(deity.ledger, type) >= 0

\* after a tick, the ledger holds entries born at different ticks, the oldest
\* at tick 0, and an offer older than the current tick
C24_Witness ==
  /\ lastOp.op = "tick"
  /\ Len(Entries) >= 2
  /\ Entries[1].tick = 0
  /\ Entries[1].tick < Entries[Len(Entries)].tick
  /\ TicksSinceLast(deity.ledger, "offer") \in 1..MaxTick

\* C25: after every operation the deity's tick counter equals the ledger's
\* current tick, and the mood's lastResolvedTick is -1 before the first tick
\* and the tick counter from then on
C25_Lockstep ==
  /\ deity.tick = deity.ledger.tick
  /\ deity.mood.lastResolvedTick = IF deity.tick = 0 THEN 0 - 1 ELSE deity.tick

\* each single tick resolves the mood exactly once, and not vacuously: the
\* guard of resolve does not apply, and the new vector is one blend of the
\* old one against the ledger as the neglect check left it
C25_ResolvedOnce ==
  [][(lastOp'.op = "tick" /\ lastOp'.dt = 1) =>
       LET d1 == RecordNeglect([deity EXCEPT !.tick = @ + 1, !.ledger = AdvanceTick(@, 1)])
       IN  /\ deity.mood.lastResolvedTick # d1.tick
           /\ deity'.mood.vector = Blend(deity.mood, d1.ledger)
           /\ deity'.mood.lastResolvedTick = d1.tick
           /\ deity'.ledger = d1.ledger]_vars

\* a deity with a history has just been ticked, its second tick or a later one
C25_Witness ==
  /\ lastOp.op = "tick"
  /\ lastOp.dt >= 1
  /\ deity.tick >= 2
  /\ deity.mood.lastResolvedTick = deity.ledger.tick
  /\ Len(Entries) >= 1

\* before the first tick, after an interaction
C25_WitnessBefore ==
  /\ deity.tick = 0
  /\ lastOp.op \in Interactions
  /\ deity.mood.lastResolvedTick = 0 - 1

\* the order in which _checkEvents looks at the events
EmissionOrder == <<"moodShift", "wrath", "demand", "omen", "miracle", "utterance">>

Rank(event) == CHOOSE i \in 1..Len(EmissionOrder) : EmissionOrder[i] = event

\* the data of an emitted event is taken from the mood m
Reflects(rec, m) ==
  CASE rec.event = "moodShift" ->
         rec.data.mood = FuzzyRead(m) /\ rec.data.to = Dominant(m).dimension
    [] rec.event = "wrath"     -> rec.data.intensity = m.vector.wrath
    [] rec.event = "demand"    -> rec.data.intensity = m.vector.hunger
    [] rec.event = "omen"      -> rec.data.intensity = m.vector.chaos
    [] rec.event = "miracle"   -> rec.data.serenity = m.vector.serenity
    [] rec.event = "utterance" ->
         rec.data.mood = FuzzyRead(m) /\ rec.data.dominant = Dominant(m)

\* C26: the events of a tick() call carry the tick of the step that emitted
\* them, steps follow each other, within a step the events come in the order
\* moodShift, wrath, demand, omen, miracle, utterance, and the data of the
\* events of the last step is that of the mood this step resolved
C26_EmissionOrder ==
  [][lastOp'.op = "tick" =>
       /\ deity'.mood.lastResolvedTick = deity'.tick
       /\ \A i \in 1..Len(emitted') :
            /\ emitted'[i].data.tick \in (deity.tick + 1)..deity'.tick
            /\ emitted'[i].data.tick = deity'.tick => Reflects(emitted'[i], deity'.mood)
            /\ \A j \in (i + 1)..Len(emitted') :
                 /\ emitted'[i].data.tick <= emitted'[j].data.tick
                 /\ emitted'[i].data.tick = emitted'[j].data.tick
                      => Rank(emitted'[i].event) <= Rank(emitted'[j].event)]_vars

\* the events e1 and then e2 have just been emitted by the last step of a tick
EmittedInOrder(e1, e2) ==
  /\ lastOp.op = "tick"
  /\ \E i, j \in 1..Len(emitted) :
       /\ i < j
       /\ emitted[i].event = e1 /\ emitted[j].event = e2
       /\ emitted[i].data.tick = deity.tick /\ emitted[j].data.tick = deity.tick

\* tick 12 has just worked a miracle, after an omen
C26_Witness == EmittedInOrder("omen", "miracle") /\ deity.tick = 12

\* a mood shift followed by wrath
C26_WitnessShift == EmittedInOrder("moodShift", "wrath")

\* a demand followed by an utterance
C26_WitnessUtterance == EmittedInOrder("demand", "utterance")

\* the entries the caller recorded: those not marked synthetic
CallerEntries(entries) == SelectSeq(entries, LAMBDA e : ~Has(e.meta, "synthetic"))

\* C27: at every single tick the neglect check decides as it would on the
\* offer, pray and desecrate entries recorded by the caller alone; every
\* synthetic offer bears the tick of a caller entry recorded just before it
C27_SyntheticNeutral ==
  [][(lastOp'.op = "tick" /\ lastOp'.dt = 1) =>
       LET t  == deity.tick + 1
           d1 == [deity EXCEPT !.tick = t, !.ledger = AdvanceTick(@, 1)]
           dueForCaller == SinceInteraction(CallerEntries(Entries), t) > deity.neglectThreshold
       IN  /\ NeglectDue(d1) <=> dueForCaller
           /\ Len(Entries') = Len(Entries) + 1 <=> dueForCaller
           /\ SinceInteraction(Entries, t) = SinceInteraction(CallerEntries(Entries), t)
           /\ \A i \in 1..Len(Entries) :
                (Entries[i].type = "offer" /\ Has(Entries[i].meta, "synthetic")) =>
                  /\ i > 1
                  /\ Entries[i - 1].tick = Entries[i].tick
                  /\ Entries[i - 1].type \in Interactions
                  /\ ~Has(Entries[i - 1].meta, "synthetic")]_vars

\* a tick has just recorded neglect although the latest offer entry is a
\* synthetic one, recorded with a surprising prayer or desecration
C27_Witness ==
  /\ lastOp.op = "tick"
  /\ lastOp.dt = 1
  /\ Len(Entries) >= 4
  /\ Entries[Len(Entries)] =
       [type |-> "neglect", tick |-> deity.tick, meta |-> [synthetic |-> TRUE]]
  /\ Entries[Len(Entries) - 1].type = "offer"
  /\ Has(Entries[Len(Entries) - 1].meta, "synthetic")
  /\ Entries[Len(Entries) - 2].type \in {"pray", "desecrate"}

\* the last n elements of a sequence, for n >= 1
LastOf(seq, n) == SubSeq(seq, Max(1, Len(seq) - n + 1), Len(seq))

\* the position at which t first occurs in the window
FirstAt(window, t) ==
  CHOOSE i \in 1..Len(window) : window[i] = t /\ \A j \in 1..(i - 1) : window[j] # t

\* the most frequent type of a non-empty window; among the most frequent
\* ones, the one that occurs first
MostFrequentFirst(window) ==
  LET types == {window[i] : i \in 1..Len(window)}
      top   == {t \in types : \A u \in types : CountIn(window, u) <= CountIn(window, t)}
  IN  CHOOSE t \in top : \A u \in top : FirstAt(window, t) <= FirstAt(window, u)

\* C28: record(type) returns as predicted the prediction made after the
\* record before it, null on the first record, and as surprised whether that
\* prediction is not null and differs from type; the prediction it leaves is
\* the most frequent type among the last sequenceLength types recorded, the
\* earliest in that window among equally frequent ones
C28_Prediction ==
  [][lastOp'.op = "observe" =>
       LET n == deity.supplicant.seqLen
       IN  /\ ret'.predicted = deity.supplicant.lastPrediction
           /\ ret'.predicted = IF Past = <<>> THEN "null"
                               ELSE MostFrequentFirst(LastOf(Past, n))
           /\ ret'.surprised <=> (ret'.predicted # "null" /\ ret'.predicted # lastOp'.type)
           /\ deity'.supplicant.lastPrediction = MostFrequentFirst(LastOf(Past', n))]_vars

\* a record has just surprised a supplicant with a window of two, and has
\* left a tie in that window: the prediction is the older of the two types
C28_Witness ==
  /\ lastOp.op = "observe"
  /\ deity.supplicant.seqLen = 2
  /\ Len(Past) >= 3
  /\ ret.surprised
  /\ Past[Len(Past)] # Past[Len(Past) - 1]
  /\ deity.supplicant.lastPrediction = Past[Len(Past) - 1]

\* how many of the recorded types were predicted: those equal to the most
\* frequent, earliest type of the window before them
CorrectIn(past, n) ==
  Cardinality({i \in 2..Len(past) :
                 MostFrequentFirst(LastOf(SubSeq(past, 1, i - 1), n)) = past[i]})

\* C29: omniscient is false with fewer than ten records and otherwise true
\* exactly when more than 85% of the records were predicted; ten records
\* of one type make it true
C29_Omniscient ==
  lastOp.op = "omniscient" =>
    LET total   == Len(Past)
        correct == CorrectIn(Past, deity.supplicant.seqLen)
    IN  /\ deity.supplicant.total = total
        /\ deity.supplicant.correct = correct
        /\ total < 10 => ret = FALSE
        /\ total >= 10 => (ret <=> correct * 100 > 85 * total)
        /\ (total = 10 /\ \A i \in 1..total : Past[i] = Past[1]) => ret = TRUE

\* omniscient has just been read as true after ten records of one type
C29_Witness ==
  /\ lastOp.op = "omniscient"
  /\ Len(Past) = 10
  /\ \A i \in 1..Len(Past) : Past[i] = Past[1]
  /\ deity.supplicant.correct = 9
  /\ ret = TRUE

\* and as false after ten records of which eight were predicted
C29_WitnessBelow ==
  /\ lastOp.op = "omniscient"
  /\ Len(Past) = 10
  /\ deity.supplicant.correct = 8
  /\ ret = FALSE

\* C30: whatever was trimmed from the stored history, the prediction and its
\* confidence are those of the last sequenceLength types of everything
\* recorded; the stored history is the newest part of that sequence and is
\* never longer than three times sequenceLength
C30_TrimUnobservable ==
  Past # <<>> =>
    LET n      == deity.supplicant.seqLen
        window == LastOf(Past, n)
        best   == MostFrequentFirst(window)
        stored == deity.supplicant.history
    IN  /\ deity.supplicant.lastPrediction = best
        /\ deity.supplicant.lastConfidence
             = RDiv(CountIn(window, best) * SCALE, Len(window))
        /\ Len(stored) <= 3 * n
        /\ Len(stored) >= Min(Len(Past), n)
        /\ stored = LastOf(Past, Len(stored))

\* a supplicant with a window of two has trimmed its history and then seen
\* both types: the window holds a tie
C30_Witness ==
  /\ deity.supplicant.seqLen = 2
  /\ Len(Past) >= 7
  /\ Len(deity.supplicant.history) < Len(Past)
  /\ Past[Len(Past)] # Past[Len(Past) - 1]
  /\ deity.supplicant.lastConfidence = 5000

\* C31: after any sequence of record calls the counters of the supplicant
\* agree: totalInteractions is the number of calls and the sum of the
\* per-type frequencies, each frequency is the number of calls with that
\* type, correctPredictions lies between 0 and totalInteractions - 1 once a
\* call was made (the first call has no prediction to match), and the
\* surprise level lies in [0, 1]
C31_Counters ==
  LET s == deity.supplicant
  IN  /\ s.total = Len(Past)
      /\ s.total = SumOver(s.freq, Types)
      /\ \A t \in Types : s.freq[t] = CountIn(Past, t)
      /\ s.correct >= 0
      /\ s.total >= 1 => s.correct <= s.total - 1
      /\ s.surprise >= 0 /\ s.surprise <= SCALE

\* five alternating records against a window of one: every prediction after
\* the first call was wrong and the surprise level has reached its cap
C31_Witness ==
  /\ deity.supplicant.seqLen = 1
  /\ deity.supplicant.total = 5
  /\ deity.supplicant.correct = 0
  /\ deity.supplicant.freq["offer"] = 3
  /\ deity.supplicant.freq["pray"] = 2
  /\ deity.supplicant.surprise = SCALE

\* every call after the first was predicted: the count of correct
\* predictions is at its upper limit and the surprise level at its floor
C31_WitnessAllCorrect ==
  /\ deity.supplicant.total = MaxRun - 1
  /\ deity.supplicant.correct = deity.supplicant.total - 1
  /\ deity.supplicant.surprise = 0

\* what the callbacks of one emission leave of the list fns: "drop" removes
\* "log2", "once" removes itself
Settled(fns) ==
  SelectSeq(fns, LAMBDA f : /\ ~(f = "log2" /\ \E i \in 1..Len(fns) : fns[i] = "drop")
                            /\ f # "once")

\* C32: a callback that unsubscribes a listener (itself or another) does not
\* disturb the emission in progress: the first emission of a tick() call
\* invokes every listener registered for the event when it starts, once per
\* registration and in registration order, with one payload, including those
\* unsubscribed earlier in the same emission; the removals show from the
\* next emission on, which invokes the listeners left, in their order
C32_Reentrant ==
  [][lastOp'.op = "tick" =>
       LET before == deity.listeners["wrath"]
           after  == Settled(before)
           names  == [i \in 1..Len(emitted') |-> emitted'[i].fn]
           rest   == Len(names) - Len(before)
       IN  \/ /\ names = <<>>
              /\ deity'.listeners["wrath"] = before
           \/ /\ before # <<>>
              /\ rest >= 0
              /\ SubSeq(names, 1, Len(before)) = before
              /\ \A i \in 1..Len(before) :
                    /\ emitted'[i].event = "wrath"
                    /\ emitted'[i].data = emitted'[1].data
              /\ rest > 0 => after # <<>> /\ rest % Len(after) = 0
              /\ \A i \in 1..rest :
                    names[Len(before) + i] = after[((i - 1) % Len(after)) + 1]
              /\ deity'.listeners["wrath"] = after]_vars

\* a tick(2) has emitted wrath twice to the listeners once, drop, log2: the
\* first emission reached all three although once removed itself and drop
\* removed log2 before log2 had run; the second reached drop alone
C32_Witness ==
  /\ lastOp.op = "tick"
  /\ [i \in 1..Len(emitted) |-> emitted[i].fn] = <<"once", "drop", "log2", "drop">>
  /\ deity.listeners["wrath"] = <<"drop">>

\* a tick(1) has emitted wrath to once and then log: the listener after the
\* one that removed itself was not skipped
C32_WitnessSelf ==
  /\ lastOp.op = "tick"
  /\ [i \in 1..Len(emitted) |-> emitted[i].fn] = <<"once", "log">>
  /\ deity.listeners["wrath"] = <<"log">>

====
